---- MODULE Spec2Model ----
(***************************************************************************)
(* A model of the function inventory core of Acute_Algo:                   *)
(*   backend/services/function_counter.py  (FunctionCounter)               *)
(*   backend/services/file_scanner.py      (FileScanner)                   *)
(* Four specifications share one set of variables:                         *)
(*   SpecExtract   _setup_languages and _extract_functions                 *)
(*   SpecScan      scan_repository: the walk, the reads, analyze_directory *)
(*   SpecClassify  _classify_function_as_algorithm                         *)
(*   SpecSlice     _extract_function_code                                  *)
(* Scores are kept in tenths (2.5 is 25): every increment of the code is a *)
(* multiple of 0.1, and every sum that can meet the 0.5 threshold is exact *)
(* in binary floating point.                                               *)
(***************************************************************************)
EXTENDS Integers, Sequences, FiniteSets, TLC

VARIABLES
  pc,                  \* position of the operation under way
  languages,           \* FunctionCounter.languages (the set of its keys)
  queries,             \* FunctionCounter.queries: language -> compiled queries, in order
  grammarLoads,        \* input of _setup_languages: which grammars load
  language,            \* _extract_functions: the language argument
  tree,                \* _extract_functions: the parsed file, nodes in document order
  qi,                  \* _extract_functions: index of the next query to run
  functions,           \* _extract_functions: the functions list
  processed_positions, \* _extract_functions: the processed_positions set
  queryFailed,         \* _extract_functions: some query raised and was skipped
  parseFailed,         \* _extract_functions: the outer handler caught an exception
  unique_functions,    \* _extract_functions: the returned list
  func,                \* _classify_function_as_algorithm: the func argument
  code,                \* _classify_function_as_algorithm: the code argument
  score,               \* _classify_function_as_algorithm: the accumulator, in tenths
  reasons,             \* _classify_function_as_algorithm: the reasons list
  classification,      \* _classify_function_as_algorithm: the returned tuple
  source_code,         \* _extract_function_code: the source_code argument
  start_line,          \* _extract_function_code: the start_line argument
  end_line,            \* _extract_function_code: the end_line argument
  function_code,       \* _extract_function_code: the returned text
  repo_files,          \* the files below the repository root
  walk_stack,          \* os.walk: directories still to be listed, next first
  walked,              \* os.walk: directories listed so far
  file_paths,          \* _find_target_files: target_files / ScanResult.file_paths
  file_counts,         \* ScanResult.file_counts
  directory_tree,      \* ScanResult.directory_tree, as its lines
  read_idx,            \* _read_all_files: paths of file_paths handled so far
  file_contents,       \* _read_all_files: the sections appended so far, joined
  total_characters,    \* _read_all_files: total_chars
  rglob_yielded,       \* analyze_directory: paths the rglob loops yielded so far
  files_analyzed,      \* analyze_directory: files_analyzed
  total_functions,     \* analyze_directory: total_functions
  total_algorithms,    \* analyze_directory: total_algorithms
  languages_stats,     \* analyze_directory: languages_stats
  function_analysis,   \* ScanResult.function_analysis: << >> is None
  includeCode,         \* analyze_file: the include_code argument
  file_analysis,       \* analyze_file: the returned FileAnalysis, << >> is None
  stored_functions     \* create_function: the rows inserted so far

extractVars == << languages, queries, grammarLoads, tree, qi, functions,
                  processed_positions, queryFailed, parseFailed, unique_functions >>

classifyVars == << func, code, score, reasons, classification >>

sliceVars == << source_code, start_line, end_line, function_code >>

scanVars == << repo_files, walk_stack, walked, file_paths, file_counts, directory_tree,
              read_idx, file_contents, total_characters, rglob_yielded,
              files_analyzed, total_functions, total_algorithms, languages_stats,
              function_analysis >>

analyzeVars == << includeCode, file_analysis, stored_functions >>

vars == << pc, language, extractVars, classifyVars, sliceVars, scanVars, analyzeVars >>

\* What the operations of one component leave alone.
notExtractVars == << classifyVars, sliceVars, scanVars, analyzeVars >>
notClassifyVars == << extractVars, sliceVars, scanVars, analyzeVars >>
notSliceVars == << language, extractVars, classifyVars, scanVars, analyzeVars >>
notScanVars == << language, tree, qi, functions, processed_positions, queryFailed,
                 parseFailed, unique_functions, classifyVars, sliceVars, analyzeVars >>
notAnalyzeVars == << languages, queries, grammarLoads, qi, functions, processed_positions,
                    queryFailed, parseFailed, unique_functions, classifyVars,
                    start_line, end_line, function_code, scanVars >>

----------------------------------------------------------------------------
(* Bounds of the model *)

MaxNodes == 2        \* syntax nodes of interest in one parsed file
MaxRow == 1          \* last 0-based row of a parsed file

----------------------------------------------------------------------------
(* Sequence helpers *)

Min(a, b) == IF a < b THEN a ELSE b
Max(a, b) == IF a > b THEN a ELSE b

----------------------------------------------------------------------------
(* Language Provider Registry: FunctionCounter._setup_languages *)

Languages == { "python", "javascript" }

\* python_queries, in registration order.  inClass: the pattern only matches a
\* function_definition that is a direct child of a class body block.
python_queries ==
  << [ntype |-> "function_definition",       capture |-> "function",       named |-> TRUE,  inClass |-> FALSE],
     [ntype |-> "function_definition",       capture |-> "method",         named |-> TRUE,  inClass |-> TRUE],
     [ntype |-> "async_function_definition", capture |-> "async_function", named |-> TRUE,  inClass |-> FALSE],
     [ntype |-> "lambda",                    capture |-> "lambda",         named |-> FALSE, inClass |-> FALSE] >>

\* js_queries, in registration order.
js_queries ==
  << [ntype |-> "function_declaration", capture |-> "function",       named |-> TRUE, inClass |-> FALSE],
     [ntype |-> "function_expression",  capture |-> "function_expr",  named |-> TRUE, inClass |-> FALSE],
     [ntype |-> "variable_declarator",  capture |-> "arrow_function", named |-> TRUE, inClass |-> FALSE],
     [ntype |-> "method_definition",    capture |-> "method",         named |-> TRUE, inClass |-> FALSE],
     [ntype |-> "function_declaration", capture |-> "async_function", named |-> TRUE, inClass |-> FALSE],
     [ntype |-> "class_declaration",    capture |-> "class",          named |-> TRUE, inClass |-> FALSE],
     [ntype |-> "pair",                 capture |-> "object_method",  named |-> TRUE, inClass |-> FALSE] >>

QueryStrings(lang) == IF lang = "python" THEN python_queries ELSE js_queries

\* The queries of a language that compiled, in registration order: a query
\* whose compilation raises is left out of the table (the inner handlers).
RECURSIVE CompiledQueries(_, _, _)
CompiledQueries(lang, qs, bad) ==
  IF qs = << >> THEN << >>
  ELSE LET n == Len(QueryStrings(lang)) - Len(qs) + 1
           rest == CompiledQueries(lang, Tail(qs), bad)
       IN IF << lang, n >> \in bad THEN rest ELSE << Head(qs) >> \o rest

\* The registry after _setup_languages.  loads: which grammars load; bad: the
\* queries whose compilation raises.  Both grammars are loaded inside one try
\* block, before any query is compiled: a grammar that fails to load raises
\* into the outer handler, which empties both tables.
SetupLanguagesKeys(loads) ==
  IF loads["python"] /\ loads["javascript"] THEN Languages ELSE { }

SetupQueries(loads, bad) ==
  IF loads["python"] /\ loads["javascript"]
  THEN [ l \in Languages |-> CompiledQueries(l, QueryStrings(l), bad) ]
  ELSE << >>

\* is_available() answering yes whatever the registry holds.
AlwaysAvailable == TRUE

\* FunctionCounter.is_available
is_available == Cardinality(languages) > 0

----------------------------------------------------------------------------
(* The parsed file.  A node is a syntax node some query pattern can match:   *)
(*   ntype     the grammar's node type                                       *)
(*   start,end node.start_point[0], node.end_point[0] (0-based rows)         *)
(*   name      text of the node's name child ("" when it has none)           *)
(*   nameRow   row of that name child                                        *)
(*   inClass   the node is a direct child of a class body block (python)     *)
(*   textName  what the regular expressions of the fallback find in          *)
(*             node.text ("" when none of them matches)                      *)

Rows == 0..MaxRow

JsNodeTypes == { "function_declaration", "function_expression", "variable_declarator",
                 "method_definition", "class_declaration", "pair" }

\* The i-th node of a generated file is named after its position.
NodeNames == << "f", "g", "h", "k" >>

Node(t, s, e, n, c, x) ==
  [ntype |-> t, start |-> s, end |-> e, name |-> n, nameRow |-> s, inClass |-> c, textName |-> x]

\* The nodes a file of the language can hold at position i of the document order.
\* JavaScript files also hold unnamed function expressions, and a one-line
\* method called anonymous on the first row that returns a function
\* expression called inner ("anonymous() { return function inner() {}; }").
NodesAt(lang, i) ==
  LET n == NodeNames[i] IN
  IF lang = "python"
  THEN { Node("function_definition", s, e, n, c, n) : s \in Rows, e \in Rows, c \in BOOLEAN }
       \cup { Node("lambda", s, e, "", FALSE, "") : s \in Rows, e \in Rows }
  ELSE { Node(t, s, e, n, FALSE, n) : t \in JsNodeTypes, s \in Rows, e \in Rows }
       \cup { Node("function_expression", s, e, "", FALSE, "function") : s \in Rows, e \in Rows }
       \cup { Node("method_definition", 0, 0, "anonymous", FALSE, "inner") }

\* Syntax nodes in document order: a node ends no earlier than it starts, and
\* two nodes are either disjoint or nested.
WellFormed(t) ==
  /\ \A i \in 1..Len(t) : t[i].start <= t[i].end
  /\ \A i, j \in 1..Len(t) :
       i < j => /\ t[i].start <= t[j].start
                /\ (t[j].start >= t[i].end \/ t[j].end <= t[i].end)

\* The file of test_function_detection cut down to the function greet
\* (lines 1-3) and the class Calculator (lines 5-10) with its two methods.
ScenarioATree ==
  << [ntype |-> "function_definition", start |-> 0, end |-> 2, name |-> "greet",
      nameRow |-> 0, inClass |-> FALSE, textName |-> "greet"],
     [ntype |-> "function_definition", start |-> 5, end |-> 6, name |-> "add",
      nameRow |-> 5, inClass |-> TRUE, textName |-> "add"],
     [ntype |-> "function_definition", start |-> 8, end |-> 9, name |-> "subtract",
      nameRow |-> 8, inClass |-> TRUE, textName |-> "subtract"] >>

\* The parsed files the language's source files of test_function_detection give.
SampleTrees(lang) == IF lang = "python" THEN { ScenarioATree } ELSE { }

----------------------------------------------------------------------------
(* Syntax Query Extractor and Span Deduplicator:                             *)
(* FunctionCounter._extract_functions                                        *)

\* node_key = (node.start_point[0], node.end_point[0])
NodeKey(n) == << n.start, n.end >>

\* Whether the query's pattern matches the node.
Matches(q, n) == n.ntype = q.ntype /\ (q.inClass => n.inClass)

\* The nodes the query captures under its construct capture, in document order.
RECURSIVE Captured(_, _)
Captured(q, t) ==
  IF t = << >> THEN << >>
  ELSE (IF Matches(q, Head(t)) THEN << Head(t) >> ELSE << >>) \o Captured(q, Tail(t))

\* (mutant for C1: the capture loop without its skip test)
AlreadyProcessedNever(key, processed) == FALSE

\* The skip test of the capture loop: the position was already processed.
AlreadyProcessed(key, processed) == key \in processed

\* function_nodes of one query: the captured nodes whose position no earlier
\* capture, of this query or of a query before it, has taken.
RECURSIVE FunctionNodes(_, _)
FunctionNodes(cands, processed) ==
  IF cands = << >> THEN << >>
  ELSE LET n == Head(cands) IN
       IF AlreadyProcessed(NodeKey(n), processed)
       THEN FunctionNodes(Tail(cands), processed)
       ELSE << n >> \o FunctionNodes(Tail(cands), processed \cup { NodeKey(n) })

\* processed_positions left as it was by the capture loop.
MarkNothing(cands, processed) == processed

\* processed_positions after the capture loop of one query.
MarkProcessed(cands, processed) ==
  processed \cup { NodeKey(cands[i]) : i \in 1..Len(cands) }

\* name_nodes[node_key] = text: a dict in insertion order; a second name at
\* the same key overwrites the text and keeps the first one's place.
PutName(acc, key, text) ==
  IF \E i \in 1..Len(acc) : acc[i].key = key
  THEN [ i \in 1..Len(acc) |-> IF acc[i].key = key THEN [key |-> key, text |-> text] ELSE acc[i] ]
  ELSE Append(acc, [key |-> key, text |-> text])

\* name_nodes of one query: the name children of the nodes it matches.
RECURSIVE NameNodes(_, _, _)
NameNodes(q, cands, acc) ==
  IF cands = << >> THEN acc
  ELSE LET n == Head(cands) IN
       NameNodes(q, Tail(cands),
                 IF q.named /\ n.name # ""
                 THEN PutName(acc, << n.nameRow, n.nameRow >>, n.name)
                 ELSE acc)

\* The name lookup: the first entry of name_nodes inside the node's rows and
\* at most 3 rows below its start.
RECURSIVE LookupName(_, _)
LookupName(n, names) ==
  IF names = << >> THEN "anonymous"
  ELSE LET name_start == Head(names).key[1]
           name_end == Head(names).key[2]
       IN IF name_start >= n.start /\ name_end <= n.end /\ name_start <= n.start + 3
          THEN Head(names).text
          ELSE LookupName(n, Tail(names))

\* The name of a function node: the lookup, then the regular expressions
\* over the node's text when the lookup left "anonymous".
ResolveName(n, names) ==
  LET name == LookupName(n, names) IN
  IF name = "anonymous" /\ n.textName # "" THEN n.textName ELSE name

\* FunctionInfo(name, type, start_line, end_line, line_count)
FunctionInfo(n, name, func_type) ==
  LET first_line == n.start + 1
      last_line == IF n.end + 1 < first_line THEN first_line ELSE n.end + 1
  IN [name |-> name, type |-> func_type, start_line |-> first_line,
      end_line |-> last_line, line_count |-> last_line - first_line + 1]

\* The records the matching loop of one query appends for its function nodes.
RECURSIVE MatchNodes(_, _, _)
MatchNodes(q, nodes, names) ==
  IF nodes = << >> THEN << >>
  ELSE << FunctionInfo(Head(nodes), ResolveName(Head(nodes), names), q.capture) >>
       \o MatchNodes(q, Tail(nodes), names)

\* How a query can end: "ok"; "captures": query.captures raises, before any
\* node is seen; "match" with k: the matching loop raises after appending k
\* records.  The inner handler catches both and the loop goes on with the
\* next query.
QueryOutcomes(q, t, processed) ==
  { [kind |-> "ok", k |-> 0], [kind |-> "captures", k |-> 0] } \cup
  { [kind |-> "match", k |-> k] :
           k \in 0..(Len(FunctionNodes(Captured(q, t), processed)) - 1) }

QueryFunctions(q, t, fs, processed, outcome) ==
  LET cands == Captured(q, t)
      recs == MatchNodes(q, FunctionNodes(cands, processed), NameNodes(q, cands, << >>))
  IN IF outcome.kind = "ok" THEN fs \o recs
     ELSE IF outcome.kind = "captures" THEN fs
     ELSE fs \o SubSeq(recs, 1, outcome.k)

QueryProcessed(q, t, processed, outcome) ==
  IF outcome.kind = "captures" THEN processed ELSE MarkProcessed(Captured(q, t), processed)

\* The second pass: the first record of every (name, start_line, end_line).
RECURSIVE RemoveDuplicates(_, _)
RemoveDuplicates(fs, seen) ==
  IF fs = << >> THEN << >>
  ELSE LET key == << Head(fs).name, Head(fs).start_line, Head(fs).end_line >> IN
       IF key \in seen THEN RemoveDuplicates(Tail(fs), seen)
       ELSE << Head(fs) >> \o RemoveDuplicates(Tail(fs), seen \cup { key })

\* The list left in the order the queries reported it.
KeepReportedOrder(fs) == fs

\* list.sort(key=start_line): stable.
RECURSIVE InsertByStart(_, _)
InsertByStart(f, sorted) ==
  IF sorted = << >> THEN << f >>
  ELSE IF Head(sorted).start_line <= f.start_line
       THEN << Head(sorted) >> \o InsertByStart(f, Tail(sorted))
       ELSE << f >> \o sorted

RECURSIVE SortByStart(_)
SortByStart(fs) ==
  IF fs = << >> THEN << >>
  ELSE InsertByStart(fs[Len(fs)], SortByStart(SubSeq(fs, 1, Len(fs) - 1)))

\* The whole of the query loop, from query i on (the pure form of the steps
\* below, for the callers of _extract_functions; no query raises).
RECURSIVE RunQueries(_, _, _, _)
RunQueries(qs, t, fs, processed) ==
  IF qs = << >> THEN fs
  ELSE RunQueries(Tail(qs), t,
                  QueryFunctions(Head(qs), t, fs, processed, [kind |-> "ok", k |-> 0]),
                  QueryProcessed(Head(qs), t, processed, [kind |-> "ok", k |-> 0]))

\* analyze_file's breakdown: kind -> number of records of that kind.
Breakdown(fs) ==
  [ k \in { fs[i].type : i \in 1..Len(fs) } |->
      Cardinality({ i \in 1..Len(fs) : fs[i].type = k }) ]

\* What the outer handler of _extract_functions returns.
OuterHandlerResult(fs) == << >>

\* _extract_functions as a function of the registry, the tree and whether
\* parsing raises.
ExtractFunctions(langs, qtab, lang, t, raises) ==
  IF lang \notin langs \/ lang \notin DOMAIN qtab THEN << >>
  ELSE IF raises THEN OuterHandlerResult(<< >>)
  ELSE SortByStart(RemoveDuplicates(RunQueries(qtab[lang], t, << >>, { }), { }))

\* The query loop when the query number failing, counted from the first of
\* qs, ends as outcome says and every other query runs through.
RECURSIVE RunQueriesFailing(_, _, _, _, _, _)
RunQueriesFailing(qs, t, fs, processed, failing, outcome) ==
  IF qs = << >> THEN fs
  ELSE RunQueriesFailing(Tail(qs), t,
         QueryFunctions(Head(qs), t, fs, processed,
                        IF failing = 1 THEN outcome ELSE [kind |-> "ok", k |-> 0]),
         QueryProcessed(Head(qs), t, processed,
                        IF failing = 1 THEN outcome ELSE [kind |-> "ok", k |-> 0]),
         failing - 1, outcome)

\* _extract_functions when parsing succeeds and one query fails.
ExtractFunctionsFailing(langs, qtab, lang, t, failure) ==
  IF lang \notin langs \/ lang \notin DOMAIN qtab THEN << >>
  ELSE SortByStart(RemoveDuplicates(
         RunQueriesFailing(qtab[lang], t, << >>, { }, failure.q, failure.outcome), { }))

----------------------------------------------------------------------------
(* Text: Python's str operations on the strings the model holds *)

\* The i-th character of s, as a string of length 1.
Char(s, i) == SubSeq(s, i, i)

\* The lower-case letter of every upper-case letter.
LowerOf ==
  ("A" :> "a") @@ ("B" :> "b") @@ ("C" :> "c") @@ ("D" :> "d") @@ ("E" :> "e")
  @@ ("F" :> "f") @@ ("G" :> "g") @@ ("H" :> "h") @@ ("I" :> "i") @@ ("J" :>
  "j") @@ ("K" :> "k") @@ ("L" :> "l") @@ ("M" :> "m") @@ ("N" :> "n") @@ ("O"
  :> "o") @@ ("P" :> "p") @@ ("Q" :> "q") @@ ("R" :> "r") @@ ("S" :> "s") @@
  ("T" :> "t") @@ ("U" :> "u") @@ ("V" :> "v") @@ ("W" :> "w") @@ ("X" :> "x")
  @@ ("Y" :> "y") @@ ("Z" :> "z")

LowerChar(c) == IF c \in DOMAIN LowerOf THEN LowerOf[c] ELSE c

\* str.lower(), by halves
RECURSIVE Lower(_)
Lower(s) ==
  IF Len(s) = 0 THEN ""
  ELSE IF Len(s) = 1 THEN LowerChar(s)
  ELSE LET h == Len(s) \div 2 IN Lower(SubSeq(s, 1, h)) \o Lower(SubSeq(s, h + 1, Len(s)))

\* The positions at which pat occurs in s.
Occurrences(pat, s) ==
  { i \in 1..(Len(s) - Len(pat) + 1) : SubSeq(s, i, i + Len(pat) - 1) = pat }

\* pat in s
Contains(pat, s) == Occurrences(pat, s) # { }

\* s.count(pat): the occurrences taken from the left that do not overlap.
RECURSIVE CountFrom(_, _, _)
CountFrom(occ, len, from) ==
  LET later == { i \in occ : i >= from } IN
  IF later = { } THEN 0
  ELSE LET first == CHOOSE i \in later : \A j \in later : i <= j
       IN 1 + CountFrom(occ, len, first + len)

Count(pat, s) == CountFrom(Occurrences(pat, s), Len(pat), 1)

\* sum(s.count(pattern) for pattern in patterns)
RECURSIVE SumCounts(_, _)
SumCounts(patterns, s) ==
  IF patterns = << >> THEN 0 ELSE Count(Head(patterns), s) + SumCounts(Tail(patterns), s)

\* sep.join(parts)
RECURSIVE Join(_, _)
Join(sep, parts) ==
  IF parts = << >> THEN ""
  ELSE IF Len(parts) = 1 THEN parts[1]
  ELSE parts[1] \o sep \o Join(sep, Tail(parts))

----------------------------------------------------------------------------
(* Algorithm Classifier: FunctionCounter._classify_function_as_algorithm     *)
(* The accumulator acc is [score, reasons], the score in tenths.             *)

utility_patterns ==
  << "get", "set", "is", "has", "can", "should", "will",
     "init", "setup", "config", "load", "save", "read", "write",
     "parse", "format", "convert", "transform", "validate",
     "helper", "util", "tool", "wrapper", "handler",
     "log", "print", "debug", "trace", "error",
     "test", "mock", "stub", "fixture" >>

algorithm_patterns ==
  << "sort", "search", "find", "calculate", "compute", "solve",
     "optimize", "minimize", "maximize", "process", "analyze",
     "algorithm", "recursive", "iterate", "traverse", "walk",
     "dfs", "bfs", "dijkstra", "binary", "merge", "quick",
     "heap", "tree", "graph", "dynamic", "greedy", "backtrack" >>

\* The loop keywords alone, without the iteration calls.
loop_keywords == << "for ", "while " >>

loop_patterns == << "for ", "while ", "foreach", "map(", "filter(", "reduce(" >>

math_patterns == << "+", "-", "*", "/", "%", "**", "pow(", "sqrt(", "abs(", "min(", "max(" >>

condition_patterns == << "if ", "elif ", "else:", "switch", "case", "?", "and ", "or " >>

ds_patterns == << "append(", "push(", "pop(", "insert(", "remove(", "sort()", "reverse()" >>

business_patterns ==
  << "business", "logic", "rule", "policy", "workflow",
     "process", "calculate", "compute", "determine",
     "evaluate", "assess", "analyze", "validate" >>

Add(acc, delta, reason) ==
  [score |-> acc.score + delta, reasons |-> Append(acc.reasons, reason)]

\* for pattern in patterns: if pattern in name_lower: score += delta; reasons.append(...)
NamePatterns(acc, patterns, name_lower, delta, prefix, suffix) ==
  LET InName(pattern) == Contains(pattern, name_lower)
      found == SelectSeq(patterns, InName)
  IN [score |-> acc.score + delta * Len(found),
      reasons |-> acc.reasons \o [ i \in 1..Len(found) |-> prefix \o found[i] \o suffix ]]

\* 1. utility names, 2. algorithm names
NameSignals(acc, f) ==
  LET name_lower == Lower(f.name)
      a1 == NamePatterns(acc, utility_patterns, name_lower, -20,
                         "utility pattern '", "' in name")
  IN NamePatterns(a1, algorithm_patterns, name_lower, 30,
                  "algorithm pattern '", "' in name")

\* if code: (an empty string is false)
HasCode(c) == c # ""

\* The classifier with no signal taken from the code.
NoCodeSignals(acc, f, c) == acc

\* The classifier with the loop signal assigned to the score, not added to it.
CodeSignalsAssigned(acc, f, c) ==
  IF ~HasCode(c) THEN acc
  ELSE [score |-> Min(SumCounts(loop_patterns, Lower(c)) * 15, 40), reasons |-> acc.reasons]

\* 3. code complexity indicators
CodeSignals(acc, f, c) ==
  IF ~HasCode(c) THEN acc
  ELSE
    LET code_lower == Lower(c)
        loop_count == SumCounts(loop_patterns, code_lower)
        a1 == IF loop_count > 0
              THEN Add(acc, Min(loop_count * 15, 40), ToString(loop_count) \o " loop(s) detected")
              ELSE acc
        a2 == IF loop_count > 1 /\ (Contains("for ", code_lower) \/ Contains("while ", code_lower))
              THEN Add(a1, 20, "nested loops detected")
              ELSE a1
        a3 == IF Contains(f.name, c) /\ Contains("return ", code_lower)
              THEN Add(a2, 25, "recursion detected")
              ELSE a2
        math_count == SumCounts(math_patterns, code_lower)
        a4 == IF math_count > 3
              THEN Add(a3, Min(math_count * 3, 20), ToString(math_count) \o " mathematical operations")
              ELSE a3
        condition_count == SumCounts(condition_patterns, code_lower)
        a5 == IF condition_count > 2
              THEN Add(a4, Min(condition_count * 5, 20),
                       ToString(condition_count) \o " conditional statements")
              ELSE a4
        ds_count == SumCounts(ds_patterns, code_lower)
    IN IF ds_count > 1
       THEN Add(a5, Min(ds_count * 8, 20), ToString(ds_count) \o " data structure operations")
       ELSE a5

\* (mutant for C9: the length taken as end_line - start_line)
SizeSignalFromSpan(acc, f) ==
  LET n == f.end_line - f.start_line IN
  IF n > 10
  THEN Add(acc, 10, "substantial function (" \o ToString(n) \o " lines)")
  ELSE IF n < 3
  THEN Add(acc, -10, "very short function (" \o ToString(n) \o " lines)")
  ELSE acc

\* 4. function length
SizeSignal(acc, f) ==
  IF f.line_count > 10
  THEN Add(acc, 10, "substantial function (" \o ToString(f.line_count) \o " lines)")
  ELSE IF f.line_count < 3
  THEN Add(acc, -10, "very short function (" \o ToString(f.line_count) \o " lines)")
  ELSE acc

\* 5. business logic names
BusinessSignals(acc, f) ==
  NamePatterns(acc, business_patterns, Lower(f.name), 20, "business logic pattern '", "'")

\* 6. language-specific patterns
LanguageSignal(acc, f, lang) ==
  IF lang = "python" /\ Contains("__", f.name)
  THEN Add(acc, -20, "magic method detected")
  ELSE acc

\* is_algorithm = score > 0.5
IsAlgorithm(raw) == raw > 5

\* (mutant for C8: the score returned unclamped)
ReturnedScoreRaw(raw) == raw

\* max(0.0, score)
ReturnedScore(raw) == Max(0, raw)

\* The reason text with every phrase kept.
ReasonTextOfAll(rs) ==
  IF rs # << >> THEN Join("; ", rs) ELSE "no specific patterns detected"

\* "; ".join(reasons[:3]) if reasons else "no specific patterns detected"
ReasonText(rs) ==
  IF rs # << >> THEN Join("; ", SubSeq(rs, 1, Min(3, Len(rs))))
  ELSE "no specific patterns detected"

\* Final classification: the returned tuple.
ClassifyReturn(acc) ==
  [is_algorithm |-> IsAlgorithm(acc.score), score |-> ReturnedScore(acc.score),
   reason |-> ReasonText(acc.reasons)]

\* The accumulator after all six signal groups.
Accumulate(f, c, lang) ==
  LanguageSignal(
    BusinessSignals(
      SizeSignal(
        CodeSignals(NameSignals([score |-> 0, reasons |-> << >>], f), f, c),
        f),
      f),
    f, lang)

\* _classify_function_as_algorithm(func, code, language)
Classify(f, c, lang) == ClassifyReturn(Accumulate(f, c, lang))

----------------------------------------------------------------------------
(* Code Slice Extractor: FunctionCounter._extract_function_code *)

\* source_code.split('\n')
Split(s) ==
  LET breaks == Occurrences("\n", s)
      n == Cardinality(breaks) + 1
      Break(k) == CHOOSE i \in breaks : Cardinality({ j \in breaks : j < i }) = k - 1
  IN [ k \in 1..n |->
         SubSeq(s, IF k = 1 THEN 1 ELSE Break(k - 1) + 1,
                   IF k = n THEN Len(s) ELSE Break(k) - 1) ]

\* The characters str.strip() removes.
Whitespace == { " ", "\t", "\r", "\f" }

\* line.strip() == ''
IsBlank(line) == \A i \in 1..Len(line) : Char(line, i) \in Whitespace

\* lines[i:j] for 0-based i, j: a negative index counts from the end, and
\* both are brought into 0..len(lines).
PySlice(lines, i, j) ==
  LET n == Len(lines)
      Norm(x) == IF x < 0 THEN Max(0, x + n) ELSE Min(x, n)
  IN SubSeq(lines, Norm(i) + 1, Norm(j))

\* The leading lines left as they are.
KeepLeadingBlank(ls) == ls

\* while function_lines and function_lines[0].strip() == '': function_lines.pop(0)
RECURSIVE PopLeadingBlank(_)
PopLeadingBlank(ls) ==
  IF ls # << >> /\ IsBlank(ls[1]) THEN PopLeadingBlank(Tail(ls)) ELSE ls

\* while function_lines and function_lines[-1].strip() == '': function_lines.pop()
RECURSIVE PopTrailingBlank(_)
PopTrailingBlank(ls) ==
  IF ls # << >> /\ IsBlank(ls[Len(ls)])
  THEN PopTrailingBlank(SubSeq(ls, 1, Len(ls) - 1))
  ELSE ls

\* end_idx = min(len(lines), end_line)
EndIdx(lines, e) == Min(Len(lines), e)

\* _extract_function_code(source_code, start_line, end_line)
ExtractFunctionCode(src, s, e) ==
  LET lines == Split(src)
      start_idx == Max(0, s - 1)
      end_idx == EndIdx(lines, e)
      function_lines == PySlice(lines, start_idx, end_idx)
  IN IF function_lines # << >>
     THEN Join("\n", PopTrailingBlank(PopLeadingBlank(function_lines)))
     ELSE ""

----------------------------------------------------------------------------
(* File Scanner: FileScanner, FunctionCounter.analyze_file and
   FunctionCounter.analyze_directory.  A file is a record
   [dir, name, status]: dir is the sequence of directory names from the
   repository root down to the file, status tells what open() and the parser
   do with it. *)

\* FileScanner.target_extensions
target_extensions == { ".js", ".py", ".ts", ".jsx", ".tsx" }

\* FileScanner.ignore_dirs
ignore_dirs ==
  { "node_modules", ".git", "__pycache__", "dist", "build", ".next", "coverage",
    ".pytest_cache", "venv", "env", ".env", "logs", "tmp", "temp", ".cache",
    ".idea", ".vscode" }

\* analyze_directory: the default include_patterns '*.py', '*.js', ..., each
\* by the ending it asks of a file name.
include_patterns == << ".py", ".js", ".jsx", ".ts", ".tsx" >>

\* analyze_directory: the default exclude_patterns, split at '/'.
exclude_patterns ==
  << << "**", "node_modules", "**" >>,
     << "**", "__pycache__", "**" >>,
     << "**", ".*", "**" >> >>

\* The components of repo_path: a relative path of one directory name.
RepoParts == << "repo" >>

\* Path.parts of a file below the root.
Parts(f) == RepoParts \o f.dir \o << f.name >>

\* Path.suffix: the text from the last dot of the name, when that dot is
\* neither the first nor the last character.
Suffix(name) ==
  LET dots == { i \in 1..Len(name) : Char(name, i) = "." } IN
  IF dots = { } THEN ""
  ELSE LET last == CHOOSE i \in dots : \A j \in dots : j <= i IN
       IF last = 1 \/ last = Len(name) THEN "" ELSE SubSeq(name, last, Len(name))

\* fnmatch of '*' followed by an ending: the name ends with it.
EndsWith(name, ending) ==
  Len(name) >= Len(ending)
  /\ SubSeq(name, Len(name) - Len(ending) + 1, Len(name)) = ending

\* fnmatch of one path component against one pattern component.  Path.match
\* gives '**' no recursive meaning: it is '*'.
PartMatch(pat, part) ==
  CASE pat \in { "*", "**" } -> TRUE
    [] pat = ".*" -> Len(part) >= 1 /\ Char(part, 1) = "."
    [] OTHER -> part = pat

\* PurePath.match with a relative pattern: the pattern's components against
\* the last components of the path, one to one.
PathMatch(parts, pattern) ==
  /\ Len(pattern) <= Len(parts)
  /\ \A k \in 1..Len(pattern) :
       PartMatch(pattern[k], parts[Len(parts) - Len(pattern) + k])

\* any(file_path.match(exclude) for exclude in exclude_patterns)
Excluded(f) ==
  \E k \in 1..Len(exclude_patterns) : PathMatch(Parts(f), exclude_patterns[k])

\* _get_language_from_extension; "" is None.
GetLanguageFromExtension(name) ==
  LET ext == Lower(Suffix(name)) IN
  IF ext = ".py" THEN "python"
  ELSE IF ext \in { ".js", ".jsx" } THEN "javascript"
  ELSE ""

\* open(file_path, 'r', encoding='utf-8') / f.read() raises.
\* (mutant for C7: no file fails to open)
OpenNeverRaises(f) == FALSE

OpenRaises(f) == f.status = "unreadable"

\* parser.parse raises inside _extract_functions.
ParseRaises(f) == f.status = "unparsable"

\* The query that raises while the file is extracted, and how far it got:
\* the first query while it builds the record of its first match, or the
\* second query in query.captures.  q = 0: no query raises.
QueryFailure(f) ==
  IF f.status = "query1_raises" THEN [q |-> 1, outcome |-> [kind |-> "match", k |-> 0]]
  ELSE IF f.status = "query2_raises" THEN [q |-> 2, outcome |-> [kind |-> "captures", k |-> 0]]
  ELSE [q |-> 0, outcome |-> [kind |-> "ok", k |-> 0]]

\* The file of scenario A: greet, and the class Calculator with two methods.
PyContent ==
  "def greet(name):\n    \"\"\"A simple greeting function\"\"\"\n    return f\"Hello, {name}!\"\n\nclass Calculator:\n    def add(self, a, b):\n        return a + b\n    \n    def subtract(self, a, b):\n        return a - b"

\* A JavaScript file with one function declaration.
JsContent == "function quickSort(a) {\n  return a;\n}"

\* f.read()
Content(f) ==
  LET ext == Suffix(f.name) IN
  IF f.status = "unparsable" THEN "def ("
  ELSE IF ext = ".py" THEN PyContent
  ELSE IF ext = ".js" THEN JsContent
  ELSE IF ext = ".ts" THEN "export const x = 1;"
  ELSE "notes"

JsSampleTree ==
  << [ntype |-> "function_declaration", start |-> 0, end |-> 2, name |-> "quickSort",
      nameRow |-> 0, inClass |-> FALSE, textName |-> "quickSort"] >>

\* The function nodes of the tree the parser builds from the file's content.
TreeOf(f) ==
  IF f.status = "unparsable" THEN << >>
  ELSE IF Suffix(f.name) = ".py" THEN ScenarioATree
  ELSE IF Suffix(f.name) = ".js" THEN JsSampleTree
  ELSE << >>

\* The directories below the root, the root (<< >>) included.
Dirs(files) ==
  { << >> } \cup UNION { { SubSeq(f.dir, 1, k) : k \in 1..Len(f.dir) } : f \in files }

\* os.walk: the subdirectories and the files a directory lists.
ChildDirs(files, d) ==
  { e \in Dirs(files) : Len(e) = Len(d) + 1 /\ SubSeq(e, 1, Len(d)) = d }

FilesIn(files, d) == { f \in files : f.dir = d }

\* The orders in which a listing can give the members of a set.
Orders(S) ==
  { o \in [1..Cardinality(S) -> S] : \A i, j \in 1..Cardinality(S) : o[i] = o[j] => i = j }

\* dirs[:] = [d for d in dirs if d not in self.ignore_dirs]
\* (mutant for C5: nothing is removed from dirs)
KeepAllDirs(dirs) == dirs

PrunedDirs(dirs) == { d \in dirs : d[Len(d)] \notin ignore_dirs }

\* if file_path.suffix in self.target_extensions
IsTargetFile(f) == Suffix(f.name) \in target_extensions

\* _count_files_by_extension
RECURSIVE CountFilesByExtension(_, _)
CountFilesByExtension(paths, counts) ==
  IF paths = << >> THEN counts
  ELSE LET extension == Suffix(Head(paths).name)
           c1 == IF extension = ".py" THEN [counts EXCEPT !.python = @ + 1]
                 ELSE IF extension \in { ".js", ".jsx" } THEN [counts EXCEPT !.javascript = @ + 1]
                 ELSE IF extension \in { ".ts", ".tsx" } THEN [counts EXCEPT !.typescript = @ + 1]
                 ELSE counts
       IN CountFilesByExtension(Tail(paths), [c1 EXCEPT !.total = @ + 1])

\* str order of the lower-cased names that occur.
NameOrder ==
  << ".git", "build", "m.js", "m.py", "m.ts", "m.txt", "node_modules", "pkg", "src" >>

NameRank(name) == CHOOSE i \in 1..Len(NameOrder) : NameOrder[i] = Lower(name)

\* items.sort(key=lambda x: (x.is_file(), x.name.lower()))
RECURSIVE SortItems(_)
SortItems(items) ==
  IF items = { } THEN << >>
  ELSE LET first == CHOOSE x \in items : \A y \in items :
                      \/ x = y
                      \/ (~x.is_file /\ y.is_file)
                      \/ (x.is_file = y.is_file /\ NameRank(x.name) < NameRank(y.name))
       IN << first >> \o SortItems(items \ { first })

\* current_path.iterdir(), without the names of ignore_dirs.
Items(files, d) ==
  { x \in { [name |-> e[Len(e)], is_file |-> FALSE, dir |-> e] : e \in ChildDirs(files, d) }
          \cup { [name |-> f.name, is_file |-> TRUE, dir |-> d] : f \in FilesIn(files, d) } :
      x.name \notin ignore_dirs }

\* _add_directory_contents: the items of one directory, sorted, each with the
\* prefix of its line and whether it is the last one.
DirectoryItems(files, d, prefix) ==
  LET items == SortItems(Items(files, d)) IN
  [ i \in 1..Len(items) |->
      [item |-> items[i], prefix |-> prefix, is_last |-> i = Len(items)] ]

\* _add_directory_contents: the lines of the items still to be written, the
\* contents of a directory right after its own line.  The box-drawing
\* characters of the source are written in ASCII.
RECURSIVE AddDirectoryContents(_, _)
AddDirectoryContents(files, todo) ==
  IF todo = << >> THEN << >>
  ELSE LET e == Head(todo)
           current_prefix == IF e.is_last THEN "+-- " ELSE "|-- "
           next_prefix == e.prefix \o (IF e.is_last THEN "    " ELSE "|   ")
           inside == IF e.item.is_file THEN << >>
                     ELSE DirectoryItems(files, e.item.dir, next_prefix)
       IN << e.prefix \o current_prefix \o e.item.name >>
          \o AddDirectoryContents(files, inside \o Tail(todo))

\* _generate_directory_tree, before the lines are joined.
GenerateDirectoryTree(files) ==
  << RepoParts[Len(RepoParts)] \o "/" >>
  \o AddDirectoryContents(files, DirectoryItems(files, << >>, ""))

\* '=' * 60
Rule == "============================================================"

\* _read_all_files: the section of one file.
FileSection(f) ==
  "\n" \o Rule \o "\n" \o "FILE: " \o f.name \o "\n" \o Rule \o "\n\n"
  \o Content(f) \o "\n\n" \o Rule \o "\n"

\* The outer handler of _extract_functions: the exception ends there and the
\* function returns an empty list.
\* (mutant for C6: the exception leaves _extract_functions)
OuterHandlerReraises(outcome) == outcome

OuterHandler(outcome) == [raised |-> FALSE, functions |-> << >>]

\* _extract_functions seen from its caller: whether an exception leaves it,
\* and the list it returns.
ExtractOutcome(langs, qtab, lang, t, raises, failure) ==
  IF raises
  THEN OuterHandler([raised |-> TRUE, functions |-> << >>])
  ELSE [raised |-> FALSE,
        functions |-> ExtractFunctionsFailing(langs, qtab, lang, t, failure)]

\* analyze_file: the fields the classification loop sets on one FunctionInfo;
\* code is << >> for None.
ClassifiedFunction(f, code_field, c) ==
  [name |-> f.name, type |-> f.type, start_line |-> f.start_line,
   end_line |-> f.end_line, line_count |-> f.line_count,
   code |-> code_field,
   is_algorithm |-> c.is_algorithm, algorithm_score |-> c.score,
   classification_reason |-> c.reason]

\* analyze_file: the code handed to the classifier and kept in func.code.
FunctionCodeField(f, content, include_code) ==
  IF include_code
  THEN << ExtractFunctionCode(content, f.start_line, f.end_line) >>
  ELSE << >>

\* The classifier's code argument for a code field: "" when there is none.
CodeArgument(code_field) == IF code_field = << >> THEN "" ELSE code_field[1]

\* analyze_file: one round of the classification loop.
ClassifyWithCode(f, code_field, lang) ==
  ClassifiedFunction(f, code_field, Classify(f, CodeArgument(code_field), lang))

\* analyze_file: the loop that classifies each function.
RECURSIVE ClassifyFunctions(_, _, _, _)
ClassifyFunctions(fns, content, lang, include_code) ==
  IF fns = << >> THEN << >>
  ELSE << ClassifyWithCode(Head(fns), FunctionCodeField(Head(fns), content, include_code), lang) >>
       \o ClassifyFunctions(Tail(fns), content, lang, include_code)

\* algorithm_count as one more for every function, algorithmic or not.
AlgorithmCountOfAll(fns) == Len(fns)

\* analyze_file: algorithm_count, one more for every is_algo.
RECURSIVE AlgorithmCount(_)
AlgorithmCount(fns) ==
  IF fns = << >> THEN 0
  ELSE (IF Head(fns).is_algorithm THEN 1 ELSE 0) + AlgorithmCount(Tail(fns))

\* analyze_file: algorithm_breakdown.
AlgorithmBreakdown(fns) ==
  Breakdown(SelectSeq(fns, LAMBDA f : f.is_algorithm))

\* analyze_file: the FileAnalysis it returns for the classified functions.
FileAnalysis(path, lang, fns) ==
  [path |-> path, language |-> lang,
   function_count |-> Len(fns),
   algorithm_count |-> AlgorithmCount(fns),
   functions |-> fns,
   breakdown |-> Breakdown(fns),
   algorithm_breakdown |-> AlgorithmBreakdown(fns)]

\* analyze_file: from the return of _extract_functions on; << >> is None.
AnalyzeExtracted(f, lang, outcome, include_code) ==
  IF outcome.raised THEN << >>
  ELSE << FileAnalysis(Parts(f), lang,
                       ClassifyFunctions(outcome.functions, Content(f), lang, include_code)) >>

\* analyze_file: from the language on.
AnalyzeInLanguage(langs, qtab, f, lang, include_code) ==
  IF lang = "" THEN << >>
  ELSE IF OpenRaises(f) THEN << >>
  ELSE AnalyzeExtracted(f, lang,
                        ExtractOutcome(langs, qtab, lang, TreeOf(f), ParseRaises(f),
                                       QueryFailure(f)),
                        include_code)

\* analyze_file(file_path, include_code=...) of a file on disk; << >> is None.
AnalyzeFile(langs, qtab, f, include_code) ==
  IF Cardinality(langs) = 0 THEN << >>
  ELSE AnalyzeInLanguage(langs, qtab, f, GetLanguageFromExtension(f.name), include_code)

\* languages_stats with the entry of the FileAnalysis replaced by its counts
\* alone, nothing carried over from the files before it.
UpdateLanguageStatsOverwriting(stats, analysis) ==
  [ l \in DOMAIN stats \cup { analysis.language } |->
      IF l = analysis.language
      THEN [files |-> 1, functions |-> analysis.function_count,
            algorithms |-> analysis.algorithm_count]
      ELSE stats[l] ]

\* analyze_directory: the update of languages_stats for one FileAnalysis.
UpdateLanguageStats(stats, analysis) ==
  LET lang == analysis.language
      old == IF lang \in DOMAIN stats THEN stats[lang]
             ELSE [files |-> 0, functions |-> 0, algorithms |-> 0]
      new == [files |-> old.files + 1,
              functions |-> old.functions + analysis.function_count,
              algorithms |-> old.algorithms + analysis.algorithm_count]
  IN [ l \in DOMAIN stats \cup { lang } |-> IF l = lang THEN new ELSE stats[l] ]

\* The loop with totals that keep the counts of the file met last.
RecordAnalysisKeepingLast(analysis) ==
  IF analysis # << >>
  THEN /\ files_analyzed' = Append(files_analyzed, analysis[1])
       /\ total_functions' = analysis[1].function_count
       /\ total_algorithms' = analysis[1].algorithm_count
       /\ languages_stats' = UpdateLanguageStats(languages_stats, analysis[1])
  ELSE UNCHANGED << files_analyzed, total_functions, total_algorithms, languages_stats >>

\* analyze_directory: what the loop does with the result of analyze_file.
RecordAnalysis(analysis) ==
  IF analysis # << >>
  THEN /\ files_analyzed' = Append(files_analyzed, analysis[1])
       /\ total_functions' = total_functions + analysis[1].function_count
       /\ total_algorithms' = total_algorithms + analysis[1].algorithm_count
       /\ languages_stats' = UpdateLanguageStats(languages_stats, analysis[1])
  ELSE UNCHANGED << files_analyzed, total_functions, total_algorithms, languages_stats >>

\* FunctionAnalysisResult(0, 0, 0, {}, [])
EmptyFunctionAnalysisResult ==
  [total_functions |-> 0, total_algorithms |-> 0, total_files |-> 0,
   languages |-> << >>, files |-> << >>]

\* analyze_directory: the early return without a provider, else the result
\* the loops have built.
AnalyzeDirectory(langs, built) ==
  IF Cardinality(langs) = 0 THEN EmptyFunctionAnalysisResult ELSE built

\* The include pattern whose rglob loop yields the file: 0 when none does.
PatternOf(f) ==
  LET hits == { k \in 1..Len(include_patterns) : EndsWith(f.name, include_patterns[k]) } IN
  IF hits = { } THEN 0 ELSE CHOOSE k \in hits : \A j \in hits : k <= j

\* analyze_file(file_path, content=..., include_code=...): the caller hands
\* the text over, so nothing is read; t is the tree the parser builds from
\* the text.  << >> is None.
AnalyzeContent(langs, qtab, file_name, content, t, with_code) ==
  IF Cardinality(langs) = 0 THEN << >>
  ELSE IF GetLanguageFromExtension(file_name) = "" THEN << >>
  ELSE << FileAnalysis(<< file_name >>, GetLanguageFromExtension(file_name),
            ClassifyFunctions(
              ExtractFunctions(langs, qtab, GetLanguageFromExtension(file_name), t, FALSE),
              content, GetLanguageFromExtension(file_name), with_code)) >>

\* DatabaseService.create_function: safe_algorithm_score, in tenths.
SafeAlgorithmScore(algorithm_score) == Min(Max(algorithm_score, 0), 10)

\* DatabaseService.create_function: the row inserted for one function.
FunctionRow(f) ==
  [name |-> f.name, type |-> f.type, start_line |-> f.start_line,
   end_line |-> f.end_line, line_count |-> f.line_count, code |-> f.code,
   is_algorithm |-> f.is_algorithm,
   algorithm_score |-> SafeAlgorithmScore(f.algorithm_score),
   classification_reason |-> f.classification_reason]

\* The variables of a single analyze_file call before it is made.
AnalyzeIdle ==
  /\ includeCode = FALSE
  /\ file_analysis = << >>
  /\ stored_functions = << >>

\* The variables of the scanner before a scan.
ScanIdle ==
  /\ repo_files = { }
  /\ walk_stack = << >>
  /\ walked = { }
  /\ file_paths = << >>
  /\ file_counts = [javascript |-> 0, python |-> 0, typescript |-> 0, total |-> 0]
  /\ directory_tree = << >>
  /\ read_idx = 0
  /\ file_contents = ""
  /\ total_characters = 0
  /\ rglob_yielded = << >>
  /\ files_analyzed = << >>
  /\ total_functions = 0
  /\ total_algorithms = 0
  /\ languages_stats = << >>
  /\ function_analysis = << >>

\* The variables of the extractor before a FunctionCounter is constructed.
ExtractIdle ==
  /\ languages = { }
  /\ queries = << >>
  /\ grammarLoads = [ l \in Languages |-> FALSE ]
  /\ tree = << >>
  /\ qi = 0
  /\ functions = << >>
  /\ processed_positions = { }
  /\ queryFailed = FALSE
  /\ parseFailed = FALSE
  /\ unique_functions = << >>

\* The variables of the code slice extractor while it is not called.
SliceIdle ==
  /\ source_code = ""
  /\ start_line = 1
  /\ end_line = 1
  /\ function_code = ""

\* The variables of the classifier while no classification is under way.
ClassifyIdle ==
  /\ func = [name |-> "", type |-> "", start_line |-> 1, end_line |-> 1, line_count |-> 1]
  /\ code = ""
  /\ score = 0
  /\ reasons = << >>
  /\ classification = [is_algorithm |-> FALSE, score |-> 0, reason |-> ""]

----------------------------------------------------------------------------
(* SpecExtract: one FunctionCounter, constructed and run on one file *)

\* The sets of queries whose compilation raises: none, the python query for
\* async_function_definition (a node type the grammar may not have), or the
\* first javascript query.
BadQuerySets ==
  { { }, { << "python", 3 >> }, { << "javascript", 1 >> } }

InitExtract ==
  /\ pc = "new"
  /\ language = "python"
  /\ ExtractIdle
  /\ ClassifyIdle
  /\ SliceIdle
  /\ ScanIdle
  /\ AnalyzeIdle

\* FunctionCounter.__init__ / _setup_languages
SetupLanguages ==
  /\ pc = "new"
  /\ \E loads \in [ Languages -> BOOLEAN ], bad \in BadQuerySets :
       /\ grammarLoads' = loads
       /\ languages' = SetupLanguagesKeys(loads)
       /\ queries' = SetupQueries(loads, bad)
  /\ pc' = "idle"
  /\ UNCHANGED << language, tree, qi, functions, processed_positions, queryFailed,
                  parseFailed, unique_functions >>
  /\ UNCHANGED notExtractVars

\* The file to analyse: its language, and an empty tree or a sample's.
OpenFile ==
  /\ pc = "idle"
  /\ \E lang \in Languages :
       /\ language' = lang
       /\ \E t \in { << >> } \cup SampleTrees(lang) : tree' = t
  /\ pc' = "file"
  /\ UNCHANGED << languages, queries, grammarLoads, qi, functions, processed_positions,
                  queryFailed, parseFailed, unique_functions >>
  /\ UNCHANGED notExtractVars

\* The file holds one more construct, after the ones it has.
AddNode ==
  /\ pc = "file"
  /\ Len(tree) < MaxNodes
  /\ \E n \in NodesAt(language, Len(tree) + 1) :
       /\ WellFormed(Append(tree, n))
       /\ tree' = Append(tree, n)
  /\ UNCHANGED << pc, languages, queries, grammarLoads, language, qi, functions,
                  processed_positions, queryFailed, parseFailed, unique_functions >>
  /\ UNCHANGED notExtractVars

\* _extract_functions, up to the query loop: the language check, the parse.
ExtractBegin ==
  /\ pc = "file"
  /\ \E raises \in BOOLEAN :
       IF language \notin languages \/ language \notin DOMAIN queries
       THEN /\ unique_functions' = << >>
            /\ pc' = "done"
            /\ UNCHANGED parseFailed
       ELSE IF raises
       THEN /\ unique_functions' = OuterHandlerResult(functions)
            /\ parseFailed' = TRUE
            /\ pc' = "done"
       ELSE /\ pc' = "query"
            /\ UNCHANGED << unique_functions, parseFailed >>
  /\ qi' = 1
  /\ functions' = << >>
  /\ processed_positions' = { }
  /\ UNCHANGED << languages, queries, grammarLoads, language, tree, queryFailed >>
  /\ UNCHANGED notExtractVars

\* One turn of the query loop.
ExtractQuery ==
  /\ pc = "query"
  /\ qi <= Len(queries[language])
  /\ LET q == queries[language][qi] IN
     \E outcome \in QueryOutcomes(q, tree, processed_positions) :
       /\ functions' = QueryFunctions(q, tree, functions, processed_positions, outcome)
       /\ processed_positions' = QueryProcessed(q, tree, processed_positions, outcome)
       /\ queryFailed' = (queryFailed \/ outcome.kind # "ok")
  /\ qi' = qi + 1
  /\ UNCHANGED << pc, languages, queries, grammarLoads, language, tree, parseFailed,
                  unique_functions >>
  /\ UNCHANGED notExtractVars

\* After the last query: the second de-duplication, the sort, the return.
ExtractFinish ==
  /\ pc = "query"
  /\ qi > Len(queries[language])
  /\ unique_functions' = SortByStart(RemoveDuplicates(functions, { }))
  /\ pc' = "done"
  /\ UNCHANGED << languages, queries, grammarLoads, language, tree, qi, functions,
                  processed_positions, queryFailed, parseFailed >>
  /\ UNCHANGED notExtractVars

NextExtract ==
  SetupLanguages \/ OpenFile \/ AddNode \/ ExtractBegin \/ ExtractQuery \/ ExtractFinish

SpecExtract == InitExtract /\ [][NextExtract]_vars

----------------------------------------------------------------------------
(* Claims about the extractor and the registry, under SpecExtract *)

NoSharedSpan(fs) ==
  \A i, j \in 1..Len(fs) :
    i # j => << fs[i].start_line, fs[i].end_line >> # << fs[j].start_line, fs[j].end_line >>

Kinds(fs) == [ i \in 1..Len(fs) |-> fs[i].type ]

\* The queries of the file's language that match the node.
MatchingQueries(n) ==
  { i \in 1..Len(queries[language]) : Matches(queries[language][i], n) }

\* C1: neither the list the query loop builds nor the list _extract_functions
\* returns ever holds two records with the same (start_line, end_line), hence
\* never two with the same (name, start_line, end_line).
C1_SpanUniqueness == NoSharedSpan(functions) /\ NoSharedSpan(unique_functions)

\* C1 witness: a node two queries match came out as exactly one record.
C1_Witness ==
  /\ pc = "done" /\ ~parseFailed /\ ~queryFailed
  /\ language \in languages
  /\ \E i \in 1..Len(tree) :
       /\ Cardinality(MatchingQueries(tree[i])) >= 2
       /\ Cardinality({ j \in 1..Len(unique_functions) :
                          /\ unique_functions[j].start_line = tree[i].start + 1
                          /\ unique_functions[j].end_line = tree[i].end + 1 }) = 1

\* C2 (as claimed): the file with greet on lines 1-3 and the class Calculator
\* on lines 5-10 with its methods add and subtract yields 3 records of kinds
\* function, method, method and the breakdown {function: 1, method: 2}.
C2_ScenarioA_AsClaimed ==
  (/\ pc = "done" /\ ~parseFailed /\ ~queryFailed
   /\ language = "python" /\ language \in languages
   /\ tree = ScenarioATree)
  => /\ Len(unique_functions) = 3
     /\ Kinds(unique_functions) = << "function", "method", "method" >>
     /\ Breakdown(unique_functions) = [ k \in { "function", "method" } |->
                                          IF k = "function" THEN 1 ELSE 2 ]

\* C3 (as claimed): when one grammar fails to load and the other loads, the
\* other language is registered, the counter is available, and extraction
\* for it still returns the functions of a file that has some.
C3_PerLanguageDegradation_AsClaimed ==
  /\ pc # "new" =>
       \A l \in Languages : grammarLoads[l] => (is_available /\ l \in languages)
  /\ (/\ pc = "done" /\ grammarLoads[language] /\ ~parseFailed /\ ~queryFailed
      /\ \E i \in 1..Len(tree) :
           tree[i].ntype \in { "function_definition", "function_declaration" })
     => unique_functions # << >>

----------------------------------------------------------------------------
(* SpecClassify: one call of _classify_function_as_algorithm *)

MaxCodeLines == 2    \* lines of the code text handed to the classifier

\* Function names the classifier is run on.
FunctionNames == { "get_value", "QuickSort", "__init__", "process_data", "x" }

\* line_count values on both sides of the two size thresholds.
LineCounts == { 2, 5, 11 }

\* Lines a function's source is made of; the first two carry its name, the
\* third has one loop pattern and the fourth two.
CodeLinesOf(name) ==
  { "def " \o name \o "(a):", "return " \o name \o "(a[1:])",
    "for i in a:", "b = map(f, filter(g, a))",
    "if a and b or c: pass", "x = a * b - c / d + e",
    "a.append(i); b.pop()", "return a" }

CodeLineCount(c) == IF c = "" THEN 0 ELSE Count("\n", c) + 1

InitClassify ==
  /\ pc = "new"
  /\ language = "python"
  /\ ExtractIdle
  /\ ClassifyIdle
  /\ SliceIdle
  /\ ScanIdle
  /\ AnalyzeIdle

\* The caller's arguments: a record, a language, no code yet.
ClassifyCall ==
  /\ pc = "new"
  /\ \E name \in FunctionNames, lc \in LineCounts, lang \in Languages :
       /\ func' = [name |-> name, type |-> "function", start_line |-> 1, end_line |-> lc,
                   line_count |-> lc]
       /\ language' = lang
  /\ code' = ""
  /\ pc' = "args"
  /\ UNCHANGED << notClassifyVars, score, reasons, classification >>

\* The code argument holds one more line.
CodeLine ==
  /\ pc = "args"
  /\ CodeLineCount(code) < MaxCodeLines
  /\ \E l \in CodeLinesOf(func.name) :
       code' = IF code = "" THEN l ELSE code \o "\n" \o l
  /\ UNCHANGED << pc, language, notClassifyVars, func, score, reasons, classification >>

\* _classify_function_as_algorithm, from score = 0.0 to the return.
ClassifyRun ==
  /\ pc = "args"
  /\ LET acc == Accumulate(func, code, language) IN
       /\ score' = acc.score
       /\ reasons' = acc.reasons
       /\ classification' = ClassifyReturn(acc)
  /\ pc' = "classified"
  /\ UNCHANGED << language, notClassifyVars, func, code >>

NextClassify == ClassifyCall \/ CodeLine \/ ClassifyRun

SpecClassify == InitClassify /\ [][NextClassify]_vars

----------------------------------------------------------------------------
(* Claims about the classifier, under SpecClassify *)

\* C8: for every classified input, with score the accumulated raw score:
\* is_algorithm is true exactly when score > 0.5, the returned score is
\* max(0, score), and so it is never negative.
C8_DecisionAndClamp ==
  pc = "classified" =>
    /\ classification.is_algorithm = (score > 5)
    /\ classification.score = (IF score < 0 THEN 0 ELSE score)
    /\ classification.score >= 0

\* C8 witness: a negative raw score was reported as 0 and not as an algorithm.
C8_Witness ==
  pc = "classified" /\ score < 0 /\ classification.score = 0
  /\ ~classification.is_algorithm

\* The number of patterns of the list that occur in the lower-cased name.
PatternHits(patterns, name) ==
  Cardinality({ i \in 1..Len(patterns) : Contains(patterns[i], Lower(name)) })

\* The score the name, the line count and the language alone account for.
NameAndSizeScore(name, line_count, lang) ==
  30 * PatternHits(algorithm_patterns, name)
  - 20 * PatternHits(utility_patterns, name)
  + 20 * PatternHits(business_patterns, name)
  + (IF line_count > 10 THEN 10 ELSE IF line_count < 3 THEN -10 ELSE 0)
  - (IF lang = "python" /\ Contains("__", name) THEN 20 ELSE 0)

\* The phrases of the code-based signals.
CodePhrase(r) ==
  \/ Contains("loop(s) detected", r) \/ Contains("nested loops detected", r)
  \/ Contains("recursion detected", r) \/ Contains("mathematical operations", r)
  \/ Contains("conditional statements", r) \/ Contains("data structure operations", r)

\* C9: classification with empty code text is decided by the name, the
\* line count and the language alone: the raw score is the sum of the name,
\* size and language signals, the decision and returned score follow from
\* it, and no phrase of a code-based signal is among the reasons.
C9_DegradedMode ==
  (pc = "classified" /\ code = "") =>
    LET raw == NameAndSizeScore(func.name, func.line_count, language) IN
    /\ score = raw
    /\ classification.is_algorithm = (raw > 5)
    /\ classification.score = (IF raw < 0 THEN 0 ELSE raw)
    /\ \A i \in 1..Len(reasons) : ~CodePhrase(reasons[i])
    /\ ~CodePhrase(classification.reason)

\* C9 witness: a classification without code that name and size signals
\* decided, as an algorithm.
C9_Witness ==
  pc = "classified" /\ code = "" /\ classification.is_algorithm
  /\ func.line_count > 10 /\ Len(reasons) >= 2

\* The occurrences of the function's name in the code that are not the one
\* of a declaration line "def <name>(".
NameInBody(name, c) == Count(name, c) - Count("def " \o name \o "(", c)

\* The phrase is among the reasons appended during scoring.
HasReason(phrase) == \E i \in 1..Len(reasons) : reasons[i] = phrase

\* C23 (as claimed): the recursion bonus is added exactly when the function's
\* name occurs in its body, beside its declaration, and the code has a return
\* statement; a function whose name is only in its declaration line never
\* gets it.
C23_RecursionSignal_AsClaimed ==
  pc = "classified" =>
    (HasReason("recursion detected")
       <=> (NameInBody(func.name, code) > 0 /\ Contains("return ", Lower(code))))

\* The occurrences of loop constructs and of higher-order iteration calls in
\* the code handed to the classifier, counted one pattern at a time.
LoopCountOf(c) ==
  Count("for ", Lower(c)) + Count("while ", Lower(c)) + Count("foreach", Lower(c))
  + Count("map(", Lower(c)) + Count("filter(", Lower(c)) + Count("reduce(", Lower(c))

\* What the loop phrase and the nested-loop phrase among the reasons say was
\* added to the score.
ControlFlowContribution ==
  (IF HasReason(ToString(LoopCountOf(code)) \o " loop(s) detected")
   THEN Min(LoopCountOf(code) * 15, 40) ELSE 0)
  + (IF HasReason("nested loops detected") THEN 20 ELSE 0)

\* C24 (as claimed): the loop signal is added when the count of loop
\* constructs and iteration calls is above 0, the nested-loop bonus exactly
\* when the count is above 1, and what the two add together is one of 0, 1.5,
\* 5.0 and 6.0 (in tenths).
C24_ControlFlowValues_AsClaimed ==
  pc = "classified" =>
    /\ HasReason(ToString(LoopCountOf(code)) \o " loop(s) detected") <=> LoopCountOf(code) > 0
    /\ HasReason("nested loops detected") <=> LoopCountOf(code) > 1
    /\ ControlFlowContribution \in { 0, 15, 50, 60 }

\* C24: with count the occurrences of loop constructs and iteration calls,
\* the loop signal min(1.5 x count, 4.0) is added exactly when count > 0, and
\* the nested-loop bonus 2.0 exactly when count > 1 and the code has a for or
\* a while; what the two add together is one of 0, 1.5, 3.0, 4.0, 5.0 and 6.0
\* (in tenths), 3.0 and 4.0 being those of codes with iteration calls only.
C24_ControlFlowValues ==
  pc = "classified" =>
    /\ HasReason(ToString(LoopCountOf(code)) \o " loop(s) detected") <=> LoopCountOf(code) > 0
    /\ HasReason("nested loops detected")
         <=> (/\ LoopCountOf(code) > 1
              /\ (Contains("for ", Lower(code)) \/ Contains("while ", Lower(code))))
    /\ ControlFlowContribution \in { 0, 15, 30, 40, 50, 60 }
    /\ ControlFlowContribution \in { 30, 40 }
         => ~(Contains("for ", Lower(code)) \/ Contains("while ", Lower(code)))

\* Two iteration calls and no loop keyword: 3.0 for the loops, no nested-loop
\* bonus.
C24_Witness ==
  /\ pc = "classified"
  /\ LoopCountOf(code) = 2
  /\ Count("map(", code) = 1
  /\ Count("filter(", code) = 1
  /\ HasReason("2 loop(s) detected")
  /\ ~HasReason("nested loops detected")
  /\ ControlFlowContribution = 30

\* The size of what the signal of a phrase added to or took from the score.
PhraseWeight(r) ==
  IF Contains("utility pattern", r) THEN 20
  ELSE IF Contains("algorithm pattern", r) THEN 30
  ELSE IF Contains("loop(s) detected", r) THEN Min(LoopCountOf(code) * 15, 40)
  ELSE IF Contains("nested loops detected", r) THEN 20
  ELSE IF Contains("recursion detected", r) THEN 25
  ELSE IF Contains("mathematical operations", r)
       THEN Min(SumCounts(math_patterns, Lower(code)) * 3, 20)
  ELSE IF Contains("conditional statements", r)
       THEN Min(SumCounts(condition_patterns, Lower(code)) * 5, 20)
  ELSE IF Contains("data structure operations", r)
       THEN Min(SumCounts(ds_patterns, Lower(code)) * 8, 20)
  ELSE IF Contains("substantial function", r) \/ Contains("very short function", r) THEN 10
  ELSE 20

CodeSignalsCap == 40 + 20 + 25 + 20 + 20 + 20

\* C30: supplying source text never lowers a classification: the raw score
\* of a record classified with any code text is at least the raw score its
\* name, line count and language give with empty code, and at most 14.5
\* above it; so a record that is an algorithm with empty code is an algorithm
\* with every code text.
C30_CodeNeverLowers ==
  pc = "classified" =>
    LET degraded == NameAndSizeScore(func.name, func.line_count, language) IN
    /\ score >= degraded
    /\ score <= degraded + CodeSignalsCap
    /\ (code = "" => score = degraded)
    /\ (degraded > 5 => classification.is_algorithm)

\* C30 witness: a record that is an algorithm by its name alone was
\* classified with a code text that raised its score, and stayed an algorithm.
C30_Witness ==
  /\ pc = "classified" /\ code # ""
  /\ NameAndSizeScore(func.name, func.line_count, language) > 5
  /\ score > NameAndSizeScore(func.name, func.line_count, language)
  /\ classification.is_algorithm

----------------------------------------------------------------------------
(* SpecSlice: one call of _extract_function_code *)

MaxSourceLines == 3  \* lines of the file handed to the slice extractor

\* Lines of a source file: text, and three kinds of blank line.
SourceLines == { "a = 1", "  b", "", "  ", "\t" }

\* start_line and end_line: below 1, inside the file and beyond its end.
LineArgs == (-2)..(MaxSourceLines + 2)

InitSlice ==
  /\ pc = "new"
  /\ language = "python"
  /\ ExtractIdle
  /\ ClassifyIdle
  /\ SliceIdle
  /\ ScanIdle
  /\ AnalyzeIdle

\* The file's first line.
SourceFirstLine ==
  /\ pc = "new"
  /\ \E l \in SourceLines : source_code' = l
  /\ pc' = "source"
  /\ UNCHANGED << notSliceVars, start_line, end_line, function_code >>

\* The file holds one more line.
SourceNextLine ==
  /\ pc = "source"
  /\ Len(Split(source_code)) < MaxSourceLines
  /\ \E l \in SourceLines : source_code' = source_code \o "\n" \o l
  /\ UNCHANGED << pc, notSliceVars, start_line, end_line, function_code >>

\* _extract_function_code, from the call to the return.
SliceRun ==
  /\ pc = "source"
  /\ \E s \in LineArgs, e \in LineArgs :
       /\ start_line' = s
       /\ end_line' = e
       /\ function_code' = ExtractFunctionCode(source_code, s, e)
  /\ pc' = "sliced"
  /\ UNCHANGED << notSliceVars, source_code >>

NextSlice == SourceFirstLine \/ SourceNextLine \/ SliceRun

SpecSlice == InitSlice /\ [][NextSlice]_vars

----------------------------------------------------------------------------
(* Claims about the code slice extractor, under SpecSlice *)

\* The 1-based lines lo..hi of the text, without the blank lines at either
\* end, joined by newlines ("" when none is left).
TrimmedLines(src, lo, hi) ==
  LET lines == Split(src)
      kept == { i \in lo..hi : i \in 1..Len(lines) /\ ~IsBlank(lines[i]) }
  IN IF kept = { } THEN ""
     ELSE LET first == CHOOSE i \in kept : \A j \in kept : i <= j
              last == CHOOSE i \in kept : \A j \in kept : i >= j
          IN Join("\n", SubSeq(lines, first, last))

\* C10 (as claimed): for every start_line and end_line, below 1 and above the
\* number of lines n included, the returned text is the blank-line-trimmed
\* text of the lines max(1, start_line)..min(n, end_line), the empty string
\* when that range is empty.
C10_ClampedSlice_AsClaimed ==
  pc = "sliced" =>
    function_code = TrimmedLines(source_code, Max(1, start_line),
                                 Min(Len(Split(source_code)), end_line))

\* The span is inside the file: 1 <= start_line <= end_line <= number of lines.
InRangeSpan ==
  /\ 1 <= start_line
  /\ start_line <= end_line
  /\ end_line <= Len(Split(source_code))

\* C18: for a span inside the file the returned text is the selected lines
\* with only the blank (empty or whitespace-only) lines at the two ends
\* removed: every line from the first non-blank one to the last non-blank one
\* is there, in order and unchanged, interior blank lines included; the text
\* neither starts nor ends with a blank line; and extracting the whole of the
\* returned text again returns it unchanged.
C18_TrimsOnlyTheEnds ==
  (pc = "sliced" /\ InRangeSpan) =>
    /\ function_code = TrimmedLines(source_code, start_line, end_line)
    /\ function_code # "" =>
         /\ ~IsBlank(Split(function_code)[1])
         /\ ~IsBlank(Split(function_code)[Len(Split(function_code))])
    /\ ExtractFunctionCode(function_code, 1, Len(Split(function_code))) = function_code

\* A span with a blank line at each end and an indented line between them.
C18_Witness ==
  /\ pc = "sliced"
  /\ source_code = "\n  b\n\t"
  /\ start_line = 1
  /\ end_line = 3
  /\ function_code = "  b"

----------------------------------------------------------------------------
(* SpecScan: one FileScanner, one scan_repository over a small repository *)

MaxFiles == 2  \* files below the repository root

\* Where a file can lie: the root, a plain directory, directories of the
\* ignore-list at the top and further down, and a plain directory inside one
\* of the ignore-list.
DirPaths ==
  { << >>, << "src" >>, << "build" >>, << "node_modules" >>,
    << "node_modules", "pkg" >>, << "src", ".git" >> }

FileNames == { "m.py", "m.js", "m.ts", "m.txt" }

\* What opening and parsing do with a file of that name.
Statuses(name) ==
  IF GetLanguageFromExtension(name) = "python"
  THEN { "ok", "unreadable", "unparsable", "query1_raises", "query2_raises" }
  ELSE IF GetLanguageFromExtension(name) # "" THEN { "ok", "unreadable", "unparsable" }
  ELSE IF IsTargetFile([name |-> name]) THEN { "ok", "unreadable" }
  ELSE { "ok" }

InitScan ==
  /\ pc = "new"
  /\ language = "python"
  /\ ExtractIdle
  /\ ClassifyIdle
  /\ SliceIdle
  /\ ScanIdle
  /\ AnalyzeIdle

\* The repository holds one more file.
CreateFile ==
  /\ pc = "new"
  /\ Cardinality(repo_files) < MaxFiles
  /\ \E d \in DirPaths, n \in FileNames :
       /\ \A f \in repo_files : ~(f.dir = d /\ f.name = n)
       /\ \E st \in Statuses(n) :
            repo_files' = repo_files \cup { [dir |-> d, name |-> n, status |-> st] }
  /\ UNCHANGED << pc, languages, queries, grammarLoads, notScanVars, walk_stack, walked,
                  file_paths, file_counts, directory_tree, read_idx, file_contents,
                  total_characters, rglob_yielded, files_analyzed, total_functions,
                  total_algorithms, languages_stats, function_analysis >>

\* FileScanner.__init__: the FunctionCounter it builds loads both grammars or
\* ends with an empty registry.
ScannerInit ==
  /\ pc = "new"
  /\ \E loaded \in BOOLEAN :
       LET loads == [ l \in Languages |-> loaded ] IN
       /\ grammarLoads' = loads
       /\ languages' = SetupLanguagesKeys(loads)
       /\ queries' = SetupQueries(loads, { })
  /\ pc' = "scanner"
  /\ UNCHANGED << notScanVars, scanVars >>

\* scan_repository, up to the first directory of os.walk.
ScanRepository ==
  /\ pc = "scanner"
  /\ walk_stack' = << << >> >>
  /\ pc' = "walk"
  /\ UNCHANGED << languages, queries, grammarLoads, notScanVars, repo_files, walked, file_paths,
                  file_counts, directory_tree, read_idx, file_contents, total_characters,
                  rglob_yielded, files_analyzed, total_functions, total_algorithms,
                  languages_stats, function_analysis >>

\* _find_target_files: one round of the os.walk loop.
WalkDir ==
  /\ pc = "walk"
  /\ walk_stack # << >>
  /\ LET root == Head(walk_stack) IN
     /\ walked' = walked \cup { root }
     /\ \E dirs \in Orders(PrunedDirs(ChildDirs(repo_files, root))) :
          walk_stack' = dirs \o Tail(walk_stack)
     /\ \E files \in Orders({ f \in FilesIn(repo_files, root) : IsTargetFile(f) }) :
          file_paths' = file_paths \o files
  /\ UNCHANGED << pc, languages, queries, grammarLoads, notScanVars, repo_files, file_counts,
                  directory_tree, read_idx, file_contents, total_characters,
                  rglob_yielded, files_analyzed, total_functions, total_algorithms,
                  languages_stats, function_analysis >>

\* scan_repository: _find_target_files has returned; _count_files_by_extension
\* and _generate_directory_tree.
CountAndTree ==
  /\ pc = "walk"
  /\ walk_stack = << >>
  /\ file_counts' = CountFilesByExtension(file_paths,
                      [javascript |-> 0, python |-> 0, typescript |-> 0, total |-> 0])
  /\ directory_tree' = GenerateDirectoryTree(repo_files)
  /\ pc' = "read"
  /\ UNCHANGED << languages, queries, grammarLoads, notScanVars, repo_files, walk_stack, walked,
                  file_paths, read_idx, file_contents, total_characters, rglob_yielded,
                  files_analyzed, total_functions, total_algorithms, languages_stats,
                  function_analysis >>

\* _read_all_files: one round of the loop.
ReadFile ==
  /\ pc = "read"
  /\ read_idx < Len(file_paths)
  /\ LET f == file_paths[read_idx + 1] IN
     IF OpenRaises(f)
     THEN UNCHANGED << file_contents, total_characters >>
     ELSE /\ file_contents' = file_contents \o FileSection(f)
          /\ total_characters' = total_characters + Len(Content(f))
  /\ read_idx' = read_idx + 1
  /\ UNCHANGED << pc, languages, queries, grammarLoads, notScanVars, repo_files, walk_stack, walked,
                  file_paths, file_counts, directory_tree, rglob_yielded, files_analyzed,
                  total_functions, total_algorithms, languages_stats, function_analysis >>

\* scan_repository: _read_all_files has returned; is_available() decides
\* whether analyze_directory runs.
ReadAllDone ==
  /\ pc = "read"
  /\ read_idx = Len(file_paths)
  /\ pc' = IF is_available THEN "analyze" ELSE "done"
  /\ UNCHANGED << languages, queries, grammarLoads, notScanVars, scanVars >>

\* analyze_directory: one path of the rglob loops.  The patterns are taken in
\* order; within a pattern the order is the directory listing's.
AnalyzePath ==
  /\ pc = "analyze"
  /\ LET yielded == { rglob_yielded[i] : i \in 1..Len(rglob_yielded) }
         left == { f \in repo_files \ yielded : PatternOf(f) # 0 }
     IN \E f \in left :
          /\ \A g \in left : PatternOf(f) <= PatternOf(g)
          /\ rglob_yielded' = Append(rglob_yielded, f)
          /\ RecordAnalysis(IF Excluded(f) THEN << >>
                            ELSE AnalyzeFile(languages, queries, f, FALSE))
  /\ UNCHANGED << pc, languages, queries, grammarLoads, notScanVars, repo_files, walk_stack, walked,
                  file_paths, file_counts, directory_tree, read_idx, file_contents,
                  total_characters, function_analysis >>

\* analyze_directory returns, and scan_repository with it.
AnalyzeReturn ==
  /\ pc = "analyze"
  /\ \A f \in repo_files : PatternOf(f) # 0 => \E i \in 1..Len(rglob_yielded) : rglob_yielded[i] = f
  /\ function_analysis' =
       << AnalyzeDirectory(languages,
            [total_functions |-> total_functions,
             total_algorithms |-> total_algorithms,
             total_files |-> Len(files_analyzed),
             languages |-> languages_stats,
             files |-> files_analyzed]) >>
  /\ pc' = "done"
  /\ UNCHANGED << languages, queries, grammarLoads, notScanVars, repo_files, walk_stack, walked,
                  file_paths, file_counts, directory_tree, read_idx, file_contents,
                  total_characters, rglob_yielded, files_analyzed, total_functions,
                  total_algorithms, languages_stats >>

NextScan ==
  \/ CreateFile
  \/ ScannerInit
  \/ ScanRepository
  \/ WalkDir
  \/ CountAndTree
  \/ ReadFile
  \/ ReadAllDone
  \/ AnalyzePath
  \/ AnalyzeReturn

SpecScan == InitScan /\ [][NextScan]_vars

----------------------------------------------------------------------------
(* Claims about the scan, under SpecScan *)

\* Some directory on the way from the root to the file is named in the
\* ignore-list.
UnderIgnoredDir(d) == \E k \in 1..Len(d) : d[k] \in ignore_dirs

\* C4 (as claimed): when every file with an allowed extension lies under a
\* directory named in the ignore-list, at whatever depth, the function
\* analysis of the scan has total_files = 0.
C4_IgnoredOnly_AsClaimed ==
  ( /\ pc = "done"
    /\ function_analysis # << >>
    /\ \E f \in repo_files : IsTargetFile(f)
    /\ \A f \in repo_files : IsTargetFile(f) => UnderIgnoredDir(f.dir) )
  => function_analysis[1].total_files = 0

\* C5: the enumeration never lists a directory under an ignored name, never
\* holds one to be listed later, and returns only paths that have no ignored
\* directory name below the root and an extension of the allow-list.
C5_Pruning ==
  /\ \A d \in walked : ~UnderIgnoredDir(d)
  /\ \A i \in 1..Len(walk_stack) : ~UnderIgnoredDir(walk_stack[i])
  /\ \A i \in 1..Len(file_paths) :
       /\ ~UnderIgnoredDir(file_paths[i].dir)
       /\ Suffix(file_paths[i].name) \in target_extensions

C5_Witness ==
  /\ pc = "done"
  /\ \E f \in repo_files : IsTargetFile(f) /\ f.dir = << "src", ".git" >>
  /\ \E f \in repo_files : IsTargetFile(f) /\ f.dir = << "src" >>
  /\ << "src" >> \in walked
  /\ Len(file_paths) = 1

\* The analyses of a list of yielded paths, in that order.
RECURSIVE AnalysesOf(_)
AnalysesOf(paths) ==
  IF paths = << >> THEN << >>
  ELSE (IF Excluded(Head(paths)) THEN << >>
        ELSE AnalyzeFile(languages, queries, Head(paths), FALSE))
       \o AnalysesOf(Tail(paths))

\* analyze_file returned a FileAnalysis, and it has function_count = 0.
ReportsNoFunctions(analysis) == Len(analysis) = 1 /\ analysis[1].function_count = 0

\* analyze_file returned a FileAnalysis, and it has no function that the
\* undisturbed extraction does not find.
ReportsOnlyFunctionsOf(analysis, undisturbed) ==
  /\ Len(analysis) = 1
  /\ \A i \in 1..Len(analysis[1].functions) :
       \E j \in 1..Len(undisturbed) :
         /\ undisturbed[j].name = analysis[1].functions[i].name
         /\ undisturbed[j].start_line = analysis[1].functions[i].start_line
         /\ undisturbed[j].end_line = analysis[1].functions[i].end_line

\* An exception is raised while the file is extracted: by the parser, or
\* while a query is processed.
RaisesWhileExtracting(f) == ParseRaises(f) \/ QueryFailure(f).q # 0

\* C6 (as claimed): whenever an exception is raised while a file is
\* extracted, by the parser or otherwise, _extract_functions returns an empty
\* list and analyze_file reports function_count = 0 for the file.
C6_AnyExceptionEmpty_AsClaimed ==
  (pc = "done" /\ function_analysis # << >>) =>
    \A f \in repo_files : RaisesWhileExtracting(f) =>
      /\ ExtractOutcome(languages, queries, GetLanguageFromExtension(f.name),
                        TreeOf(f), ParseRaises(f), QueryFailure(f))
           = [raised |-> FALSE, functions |-> << >>]
      /\ ReportsNoFunctions(AnalyzeFile(languages, queries, f, FALSE))

\* C6 (amended): no exception raised while a file is extracted leaves
\* _extract_functions.  When the parser raises, _extract_functions returns an
\* empty list and analyze_file reports the file with function_count = 0.
\* When a query raises, analyze_file still reports the file, with functions
\* of the file only, which may be some, all or none of them.  In both cases
\* analyze_directory reaches every other file and records the analysis of
\* each file it can analyse exactly once.
C6_ParseFailureContained ==
  (pc = "done" /\ function_analysis # << >>) =>
    LET files == function_analysis[1].files
        Entries(f) == { i \in 1..Len(files) : files[i].path = Parts(f) }
    IN /\ \A f \in repo_files : ParseRaises(f) =>
            /\ ExtractOutcome(languages, queries, GetLanguageFromExtension(f.name),
                              TreeOf(f), TRUE, QueryFailure(f))
                 = [raised |-> FALSE, functions |-> << >>]
            /\ ReportsNoFunctions(AnalyzeFile(languages, queries, f, FALSE))
            /\ ~Excluded(f) =>
                 /\ Cardinality(Entries(f)) = 1
                 /\ \A i \in Entries(f) : files[i].function_count = 0
       /\ \A f \in repo_files : QueryFailure(f).q # 0 =>
            /\ ~ExtractOutcome(languages, queries, GetLanguageFromExtension(f.name),
                               TreeOf(f), FALSE, QueryFailure(f)).raised
            /\ ReportsOnlyFunctionsOf(
                 AnalyzeFile(languages, queries, f, FALSE),
                 ExtractFunctions(languages, queries, GetLanguageFromExtension(f.name),
                                  TreeOf(f), FALSE))
            /\ ~Excluded(f) => Cardinality(Entries(f)) = 1
       /\ \A g \in repo_files : PatternOf(g) # 0 =>
            \E i \in 1..Len(rglob_yielded) : rglob_yielded[i] = g
       /\ \A g \in repo_files :
            (g.status = "ok" /\ GetLanguageFromExtension(g.name) # "" /\ ~Excluded(g)) =>
              /\ Cardinality(Entries(g)) = 1
              /\ \A i \in Entries(g) : files[i].function_count = Len(TreeOf(g))

\* C6 witness: the scan met a file whose parsing raised, recorded it with no
\* function, and went on to a file with three functions.
C6_Witness ==
  /\ pc = "done"
  /\ function_analysis # << >>
  /\ Len(function_analysis[1].files) = 2
  /\ function_analysis[1].files[1].function_count = 0
  /\ function_analysis[1].files[2].function_count = 3
  /\ \E f \in repo_files : ParseRaises(f) /\ Parts(f) = function_analysis[1].files[1].path

\* The sections of a list of files, joined.
RECURSIVE SectionsOf(_)
SectionsOf(paths) ==
  IF paths = << >> THEN "" ELSE FileSection(Head(paths)) \o SectionsOf(Tail(paths))

RECURSIVE CharactersOf(_)
CharactersOf(paths) ==
  IF paths = << >> THEN 0 ELSE Len(Content(Head(paths))) + CharactersOf(Tail(paths))

RECURSIVE SumOf(_, _)
SumOf(files, field) ==
  IF files = << >> THEN 0 ELSE Head(files)[field] + SumOf(Tail(files), field)

\* The FunctionAnalysisResult is the one these FileAnalysis records give.
IsResultOf(result, analyses) ==
  /\ result.files = analyses
  /\ result.total_files = Len(analyses)
  /\ result.total_functions = SumOf(analyses, "function_count")
  /\ result.total_algorithms = SumOf(analyses, "algorithm_count")

\* C7: a scan over files some of which cannot be read ends, and its result is
\* the one the other files give alone: file_contents and total_characters are
\* those of the readable paths, in their order, and the function analysis is
\* that of the readable paths the analysis met, in their order, with no entry
\* for an unreadable file.
C7_UnreadableSkipped ==
  pc = "done" =>
    LET readable == SelectSeq(file_paths, LAMBDA f : f.status # "unreadable")
        met == SelectSeq(rglob_yielded, LAMBDA f : f.status # "unreadable")
    IN /\ file_contents = SectionsOf(readable)
       /\ total_characters = CharactersOf(readable)
       /\ function_analysis # << >> =>
            /\ IsResultOf(function_analysis[1], AnalysesOf(met))
            /\ \A f \in repo_files : f.status = "unreadable" =>
                 \A i \in 1..Len(function_analysis[1].files) :
                   function_analysis[1].files[i].path # Parts(f)

C7_Witness ==
  /\ pc = "done"
  /\ function_analysis # << >>
  /\ Len(file_paths) = 2
  /\ file_paths[1].status = "unreadable"
  /\ file_paths[2].status = "ok"
  /\ rglob_yielded[1].status = "unreadable"
  /\ file_contents = FileSection(file_paths[2])
  /\ total_characters > 0
  /\ function_analysis[1].total_files = 1
  /\ function_analysis[1].total_functions = 3


----------------------------------------------------------------------------
(* SpecAnalyze: one FunctionCounter, one analyze_file call on a text handed
   over by the caller, and the rows create_function inserts for its
   functions *)

MaxFunctions == 2  \* functions in the analysed file

\* The functions a file is made of: the construct's node type, its name and
\* its lines.
SampleFunctions(lang) ==
  IF lang = "python"
  THEN << [ntype |-> "function_definition", name |-> "quicksort",
           lines |-> << "def quicksort(a):",
                        "    for i in a:",
                        "        for j in a:",
                        "            pass",
                        "    return quicksort(a[1:])" >>],
          [ntype |-> "function_definition", name |-> "get_value",
           lines |-> << "def get_value(self):",
                        "    return self.value" >>],
          [ntype |-> "function_definition", name |-> "get_value",
           lines |-> << "def get_value(xs):",
                        "    return [x for x in xs]" >>],
          [ntype |-> "function_definition", name |-> "greet",
           lines |-> << "def greet(name):",
                        "    \"\"\"A simple greeting function\"\"\"",
                        "    return f\"Hello, {name}!\"" >>],
          [ntype |-> "lambda", name |-> "",
           lines |-> << "lambda_func = lambda x: x * 2" >>] >>
  ELSE << [ntype |-> "function_declaration", name |-> "quickSort",
           lines |-> << "function quickSort(a) {",
                        "  return a;",
                        "}" >>],
          [ntype |-> "variable_declarator", name |-> "add",
           lines |-> << "const add = (a, b) => {",
                        "    return a + b;",
                        "}" >>],
          [ntype |-> "class_declaration", name |-> "Heap",
           lines |-> << "class Heap {",
                        "}" >>] >>

\* The name the caller gives the text.
FileNameOf(lang) == IF lang = "python" THEN "test.py" ELSE "test.js"

\* The number of lines of the text so far.
LineTotal(t, text) == IF t = << >> THEN 0 ELSE Len(Split(text))

InitAnalyze ==
  /\ pc = "new"
  /\ language = "python"
  /\ ExtractIdle
  /\ ClassifyIdle
  /\ SliceIdle
  /\ ScanIdle
  /\ AnalyzeIdle

\* The caller's text: empty so far, of one of the two languages.
NewContent ==
  /\ pc = "idle"
  /\ \E lang \in Languages : language' = lang
  /\ tree' = << >>
  /\ source_code' = ""
  /\ pc' = "content"
  /\ UNCHANGED << notAnalyzeVars, analyzeVars >>

\* The text holds one more function, below the ones it has.
AppendFunction ==
  /\ pc = "content"
  /\ Len(tree) < MaxFunctions
  /\ \E i \in 1..Len(SampleFunctions(language)) :
       LET sample == SampleFunctions(language)[i]
           first == LineTotal(tree, source_code)
       IN /\ tree' = Append(tree, Node(sample.ntype, first, first + Len(sample.lines) - 1,
                                       sample.name, FALSE, sample.name))
          /\ source_code' = IF tree = << >> THEN Join("\n", sample.lines)
                            ELSE source_code \o "\n" \o Join("\n", sample.lines)
  /\ UNCHANGED << pc, language, notAnalyzeVars, analyzeVars >>

\* analyze_file(file_path, content=..., include_code=...)
AnalyzeFileCall ==
  /\ pc = "content"
  /\ \E with_code \in BOOLEAN :
       /\ includeCode' = with_code
       /\ file_analysis' = AnalyzeContent(languages, queries, FileNameOf(language),
                                          source_code, tree, with_code)
  /\ pc' = "analyzed"
  /\ UNCHANGED << language, tree, source_code, notAnalyzeVars, stored_functions >>

\* create_function for the next function of the analysis.
CreateFunction ==
  /\ pc = "analyzed"
  /\ file_analysis # << >>
  /\ Len(stored_functions) < file_analysis[1].function_count
  /\ stored_functions' =
       Append(stored_functions,
              FunctionRow(file_analysis[1].functions[Len(stored_functions) + 1]))
  /\ UNCHANGED << pc, language, tree, source_code, notAnalyzeVars, includeCode,
                  file_analysis >>

NextAnalyze ==
  SetupLanguages \/ NewContent \/ AppendFunction \/ AnalyzeFileCall \/ CreateFunction

SpecAnalyze == InitAnalyze /\ [][NextAnalyze]_vars

----------------------------------------------------------------------------
(* Claims about analyze_file, under SpecAnalyze *)

\* C11 (as claimed): every function of a FileAnalysis returned by
\* analyze_file, with or without code, has 0 <= algorithm_score <= 1
\* (scores are in tenths).
C11_ScoreInUnitInterval_AsClaimed ==
  file_analysis # << >> =>
    \A i \in 1..Len(file_analysis[1].functions) :
      /\ file_analysis[1].functions[i].algorithm_score >= 0
      /\ file_analysis[1].functions[i].algorithm_score <= 10

\* The sum of the values of a breakdown mapping over the kinds given.
RECURSIVE BreakdownSum(_, _)
BreakdownSum(counts, kinds) ==
  IF kinds = { } THEN 0
  ELSE LET k == CHOOSE x \in kinds : TRUE
       IN counts[k] + BreakdownSum(counts, kinds \ { k })

\* The functions of the list that are algorithmic and of the kind.
AlgorithmicOfKind(fns, kind) ==
  { i \in 1..Len(fns) : fns[i].is_algorithm /\ fns[i].type = kind }

\* A kind's entry of algorithm_breakdown; a kind with no entry counts as 0.
AlgorithmBreakdownOf(analysis, kind) ==
  IF kind \in DOMAIN analysis.algorithm_breakdown
  THEN analysis.algorithm_breakdown[kind] ELSE 0

\* The counts of a FileAnalysis agree with its functions.
CountsConsistent(analysis) ==
  /\ analysis.function_count = Len(analysis.functions)
  /\ analysis.algorithm_count =
       Cardinality({ i \in 1..Len(analysis.functions) : analysis.functions[i].is_algorithm })
  /\ BreakdownSum(analysis.breakdown, DOMAIN analysis.breakdown) = analysis.function_count
  /\ DOMAIN analysis.algorithm_breakdown \subseteq DOMAIN analysis.breakdown
  /\ \A kind \in DOMAIN analysis.breakdown :
       /\ AlgorithmBreakdownOf(analysis, kind)
            = Cardinality(AlgorithmicOfKind(analysis.functions, kind))
       /\ AlgorithmBreakdownOf(analysis, kind) <= analysis.breakdown[kind]
  /\ \A kind \in DOMAIN analysis.algorithm_breakdown :
       analysis.algorithm_breakdown[kind] > 0

\* C13: every FileAnalysis returned by analyze_file, with include_code true
\* or false, has function_count = len(functions), algorithm_count = the
\* number of functions with is_algorithm, breakdown values that sum to
\* function_count, and for every kind an algorithm_breakdown entry equal to
\* the number of algorithmic functions of the kind and at most the kind's
\* breakdown entry.
C13_CountsConsistent ==
  file_analysis # << >> => CountsConsistent(file_analysis[1])

\* A FileAnalysis with code, of two functions of two kinds, one algorithmic
\* and one not.
C13_Witness ==
  /\ pc = "analyzed"
  /\ includeCode
  /\ file_analysis # << >>
  /\ file_analysis[1].function_count = 2
  /\ file_analysis[1].algorithm_count = 1
  /\ Cardinality(DOMAIN file_analysis[1].breakdown) = 2
  /\ Cardinality(DOMAIN file_analysis[1].algorithm_breakdown) = 1

\* C15: a function named quicksort whose code has two nested loops and a
\* recursive self-call with a return is classified is_algorithm, and its
\* score is the name bonus (two patterns, 3.0 each), the loop bonus (1.5 a
\* loop), the nested-loop bonus (2.0) and the recursion bonus (2.5) together,
\* which is more than 5.0 (scores are in tenths).
C15_ScenarioC ==
  (file_analysis # << >> /\ includeCode) =>
    \A i \in 1..Len(file_analysis[1].functions) :
      file_analysis[1].functions[i].name = "quicksort" =>
        /\ file_analysis[1].functions[i].is_algorithm
        /\ file_analysis[1].functions[i].algorithm_score = 2 * 30 + 2 * 15 + 20 + 25
        /\ file_analysis[1].functions[i].algorithm_score > 50

\* quicksort analysed with its code: two loops of which one is inside the
\* other, and a return of a call of itself.
C15_Witness ==
  /\ pc = "analyzed"
  /\ includeCode
  /\ file_analysis # << >>
  /\ \E i \in 1..Len(file_analysis[1].functions) :
       /\ file_analysis[1].functions[i].name = "quicksort"
       /\ file_analysis[1].functions[i].is_algorithm
       /\ Count("for ", file_analysis[1].functions[i].code[1]) = 2
       /\ Contains("return quicksort(", file_analysis[1].functions[i].code[1])

\* C16 (as claimed): a function named get_value of two lines is classified
\* is_algorithm = FALSE with returned score 0.0 (raw score <= 0), whether or
\* not its code is handed to the classifier.
C16_ScenarioB_AsClaimed ==
  file_analysis # << >> =>
    \A i \in 1..Len(file_analysis[1].functions) :
      (/\ file_analysis[1].functions[i].name = "get_value"
       /\ file_analysis[1].functions[i].line_count = 2) =>
        /\ ~file_analysis[1].functions[i].is_algorithm
        /\ file_analysis[1].functions[i].algorithm_score = 0

\* C19: the functions of every FileAnalysis are in non-decreasing order of
\* start_line, whatever the order the queries reported them in.
C19_SortedByStartLine ==
  file_analysis # << >> =>
    \A i, j \in 1..Len(file_analysis[1].functions) :
      i < j => file_analysis[1].functions[i].start_line
                 <= file_analysis[1].functions[j].start_line

\* A lambda on line 1 above a function definition: the function query runs
\* first and reports the definition, the lambda query reports the lambda
\* after it.
C19_Witness ==
  /\ pc = "analyzed"
  /\ file_analysis # << >>
  /\ Len(file_analysis[1].functions) = 2
  /\ file_analysis[1].functions[1].type = "lambda"
  /\ file_analysis[1].functions[1].start_line = 1
  /\ file_analysis[1].functions[2].type = "function"
  /\ file_analysis[1].functions[2].start_line = 2

----------------------------------------------------------------------------
(* Claims about analyze_directory, under SpecScan *)

\* The sum of one counter over the entries of the languages mapping.
RECURSIVE LanguagesSum(_, _, _)
LanguagesSum(stats, langs, field) ==
  IF langs = { } THEN 0
  ELSE LET l == CHOOSE x \in langs : TRUE
       IN stats[l][field] + LanguagesSum(stats, langs \ { l }, field)

\* The totals of a FunctionAnalysisResult agree with its files and with its
\* languages mapping.
TotalsConsistent(result) ==
  /\ result.total_files = Len(result.files)
  /\ result.total_functions = SumOf(result.files, "function_count")
  /\ result.total_algorithms = SumOf(result.files, "algorithm_count")
  /\ LanguagesSum(result.languages, DOMAIN result.languages, "files") = result.total_files
  /\ LanguagesSum(result.languages, DOMAIN result.languages, "functions")
       = result.total_functions
  /\ LanguagesSum(result.languages, DOMAIN result.languages, "algorithms")
       = result.total_algorithms

\* C12: every result of analyze_directory, over any files of which any may
\* analyse or return nothing, has total_files = len(files), total_functions
\* and total_algorithms the sums of the files' counts, and a languages
\* mapping whose files, functions and algorithms sum to the three totals.
C12_TotalsConsistent ==
  function_analysis # << >> => TotalsConsistent(function_analysis[1])

\* A result over two analysed files of one language, with functions and
\* algorithms in both, so that an entry of the mapping was added to.
C12_Witness ==
  /\ pc = "done"
  /\ function_analysis # << >>
  /\ function_analysis[1].total_files = 2
  /\ DOMAIN function_analysis[1].languages = { "javascript" }
  /\ function_analysis[1].languages["javascript"].files = 2
  /\ function_analysis[1].total_functions = 2
  /\ function_analysis[1].total_algorithms = 2

\* What analyze_directory's call of analyze_file gives for a file taken alone.
AnalysisAlone(f) ==
  IF PatternOf(f) = 0 \/ Excluded(f) THEN << >>
  ELSE AnalyzeFile(languages, queries, f, FALSE)

\* The files of the repository for which that is a FileAnalysis, each with
\* its FileAnalysis.
AnalysedFiles ==
  { e \in { [file |-> f, alone |-> AnalysisAlone(f)] : f \in repo_files } :
      e.alone # << >> }

\* The sum of one count of the analyses of a set of files, each taken alone.
RECURSIVE CountOver(_, _)
CountOver(files, field) ==
  IF files = { } THEN 0
  ELSE LET e == CHOOSE x \in files : TRUE
       IN e.alone[1][field] + CountOver(files \ { e }, field)

\* The per-language tallies of a set of files, each taken alone.
TalliesOver(files) ==
  [ l \in { e.alone[1].language : e \in files } |->
      [files |-> Cardinality({ e \in files : e.alone[1].language = l }),
       functions |-> CountOver({ e \in files : e.alone[1].language = l },
                               "function_count"),
       algorithms |-> CountOver({ e \in files : e.alone[1].language = l },
                                "algorithm_count")] ]

\* The result is the aggregate of the set of files, whatever order they were
\* met in.
AggregateOf(result, files) ==
  /\ \A i \in 1..Len(result.files) :
       \E e \in files : result.files[i] = e.alone[1]
  /\ \A e \in files :
       Cardinality({ i \in 1..Len(result.files) : result.files[i].path = Parts(e.file) }) = 1
  /\ result.total_files = Cardinality(files)
  /\ result.total_functions = CountOver(files, "function_count")
  /\ result.total_algorithms = CountOver(files, "algorithm_count")
  /\ result.languages = TalliesOver(files)

\* C14: in whatever order analyze_directory meets the files of a repository,
\* each file's FileAnalysis is the one the file gives alone, and total_files,
\* total_functions, total_algorithms and the per-language tallies are those
\* of the set of files.
C14_OrderIndependent ==
  function_analysis # << >> =>
    \A files \in { AnalysedFiles } : AggregateOf(function_analysis[1], files)

\* Two files of one include pattern with different analyses, met in the
\* order opposite to that of their paths.
C14_Witness ==
  /\ pc = "done"
  /\ function_analysis # << >>
  /\ Len(rglob_yielded) = 2
  /\ rglob_yielded[1].dir = << "src" >>
  /\ rglob_yielded[2].dir = << >>
  /\ rglob_yielded[1].name = rglob_yielded[2].name
  /\ function_analysis[1].total_files = 2
  /\ function_analysis[1].files[1].function_count
       # function_analysis[1].files[2].function_count

----------------------------------------------------------------------------
(* Claims about a scan without a language provider, under SpecScan *)

\* What scan_repository returns beside the function analysis is what the
\* files of the repository and the order of the directory listings give:
\* nothing in it depends on the registry.
ScanStatistics ==
  /\ { file_paths[i] : i \in 1..Len(file_paths) }
       = { f \in repo_files : IsTargetFile(f) /\ f.dir \in walked }
  /\ \A i, j \in 1..Len(file_paths) : file_paths[i] = file_paths[j] => i = j
  /\ file_counts = CountFilesByExtension(file_paths,
                     [javascript |-> 0, python |-> 0, typescript |-> 0, total |-> 0])
  /\ file_contents = SectionsOf(SelectSeq(file_paths, LAMBDA f : ~OpenRaises(f)))
  /\ total_characters = CharactersOf(SelectSeq(file_paths, LAMBDA f : ~OpenRaises(f)))

\* C17: with no language provider, scan_repository returns file_paths,
\* file_counts, file_contents and total_characters as it does with one, and
\* no function analysis; analyze_file returns None for every file in both
\* include_code modes, and analyze_directory returns the all-zero result.
C17_NoBackend ==
  /\ pc = "done" => ScanStatistics
  /\ (pc \notin { "new" } /\ Cardinality(languages) = 0) =>
       /\ pc \notin { "analyze" }
       /\ function_analysis = << >>
       /\ \A f \in repo_files : \A with_code \in BOOLEAN :
            AnalyzeFile(languages, queries, f, with_code) = << >>
       /\ AnalyzeDirectory(languages,
            [total_functions |-> total_functions,
             total_algorithms |-> total_algorithms,
             total_files |-> Len(files_analyzed),
             languages |-> languages_stats,
             files |-> files_analyzed]) = EmptyFunctionAnalysisResult

\* A finished scan without a provider over a readable Python file and a
\* readable JavaScript file.
C17_Witness ==
  /\ pc = "done"
  /\ Cardinality(languages) = 0
  /\ function_analysis = << >>
  /\ Len(file_paths) = 2
  /\ file_counts.total = 2
  /\ file_counts.python = 1
  /\ file_counts.javascript = 1
  /\ total_characters = Len(PyContent) + Len(JsContent)

----------------------------------------------------------------------------
(* Claims about the names the extractor gives, under SpecExtract *)

\* The names a candidate can have of its own: the text of its name child,
\* or, when it has none, what the fallback over its text finds.
OwnNames(n) ==
  IF n.name # "" THEN { n.name }
  ELSE IF n.textName # "" THEN { n.textName }
  ELSE { "anonymous" }

\* The constructs of the file with the record's span.
NodesOfSpan(r) ==
  { i \in 1..Len(tree) : tree[i].start + 1 = r.start_line /\ tree[i].end + 1 = r.end_line }

\* C20 (as claimed): every record carries a name its own construct has: the
\* name of a construct nested in the candidate, or of one a few rows below
\* its start, is never attached to it, whether or not the candidate has a
\* name of its own.
C20_OwnNameOnly_AsClaimed ==
  \A k \in 1..Len(functions) :
    \E i \in NodesOfSpan(functions[k]) : functions[k].name \in OwnNames(tree[i])

\* The constructs of the file that some registered query of the language
\* reports.
ReportedNodes == { i \in 1..Len(tree) : MatchingQueries(tree[i]) # { } }

\* C21 (as claimed): two different constructs never share a de-duplication
\* key, so the output has one record for every construct some query reports:
\* none is dropped.
C21_NoConstructDropped_AsClaimed ==
  (/\ pc = "done" /\ ~parseFailed /\ ~queryFailed
   /\ language \in languages /\ language \in DOMAIN queries)
  => Len(unique_functions) = Cardinality(ReportedNodes)

\* The registered queries, by number, that report a construct of the span.
QueriesOfSpan(r) ==
  { q \in 1..Len(queries[language]) :
      \E i \in NodesOfSpan(r) : Matches(queries[language][q], tree[i]) }

\* The first of them in registration order.
FirstQueryOfSpan(r) == CHOOSE q \in QueriesOfSpan(r) : \A p \in QueriesOfSpan(r) : q <= p

\* The first construct of the span, in document order, that the query reports.
FirstNodeOfSpan(r, q) ==
  CHOOSE i \in NodesOfSpan(r) :
    /\ Matches(queries[language][q], tree[i])
    /\ \A j \in NodesOfSpan(r) : Matches(queries[language][q], tree[j]) => i <= j

\* The kind and the name the query gives the span when it runs alone.
RecordOfQuery(r, q) ==
  FunctionInfo(tree[FirstNodeOfSpan(r, q)],
               ResolveName(tree[FirstNodeOfSpan(r, q)],
                           NameNodes(queries[language][q],
                                     Captured(queries[language][q], tree), << >>)),
               queries[language][q].capture)

\* Every record of the list is the one the first query reporting its span
\* gives, and every reported span has exactly one record in the list.
FirstQueryWins(fs) ==
  /\ \A k \in 1..Len(fs) :
       /\ QueriesOfSpan(fs[k]) # { }
       /\ fs[k] = RecordOfQuery(fs[k], FirstQueryOfSpan(fs[k]))
  /\ \A i \in ReportedNodes :
       Cardinality({ k \in 1..Len(fs) : i \in NodesOfSpan(fs[k]) }) = 1

\* C22: when every query runs through, the record kept for a span carries the
\* kind and the name given by the first query, in registration order, that
\* reports the span; queries after it add no record for the span and change
\* nothing in it; and every span some query reports has exactly one record,
\* in the list the query loop builds and in the list returned.
C22_FirstQueryWins ==
  (/\ pc = "done" /\ ~parseFailed /\ ~queryFailed
   /\ language \in languages /\ language \in DOMAIN queries)
  => FirstQueryWins(functions) /\ FirstQueryWins(unique_functions)

\* A JavaScript function declaration, which the first and the fifth query
\* both report, came out once, with the first query's kind.
C22_Witness ==
  /\ pc = "done" /\ ~parseFailed /\ ~queryFailed
  /\ language = "javascript" /\ language \in languages
  /\ Len(tree) = 1
  /\ MatchingQueries(tree[1]) = { 1, 5 }
  /\ Len(unique_functions) = 1
  /\ unique_functions[1].type = "function"
  /\ unique_functions[1].name = tree[1].name

\* The construct a record was built from: the first of its span that the
\* first query reporting the span captures.
CandidateOf(r) == tree[FirstNodeOfSpan(r, FirstQueryOfSpan(r))]

\* C25 (as claimed): a candidate that has a name-capture of its own in the
\* query that reported it is recorded under exactly that name, also when the
\* name of another candidate of the same query lies on the same line.
C25_OwnNameKept_AsClaimed ==
  (/\ pc = "done" /\ ~parseFailed /\ ~queryFailed
   /\ language \in languages /\ language \in DOMAIN queries)
  => \A k \in 1..Len(unique_functions) :
       (/\ queries[language][FirstQueryOfSpan(unique_functions[k])].named
        /\ CandidateOf(unique_functions[k]).name # "")
       => unique_functions[k].name = CandidateOf(unique_functions[k]).name

\* The step is a turn of the query loop in which the query ran through.
QueryRanThrough ==
  /\ pc = "query"
  /\ qi <= Len(queries[language])
  /\ qi' = qi + 1
  /\ functions' = QueryFunctions(queries[language][qi], tree, functions,
                                 processed_positions, [kind |-> "ok", k |-> 0])
  /\ processed_positions' = QueryProcessed(queries[language][qi], tree,
                                           processed_positions, [kind |-> "ok", k |-> 0])

\* Every construct the query reports has a record of its span after the step.
SpansOfQueryPresent ==
  \A i \in 1..Len(tree) :
    Matches(queries[language][qi], tree[i]) =>
      \E k \in 1..Len(functions') :
        /\ functions'[k].start_line = tree[i].start + 1
        /\ functions'[k].end_line = tree[i].end + 1

\* C26 (as claimed): a failing query costs only its own contribution: once a
\* query has run without failing, every span it matches has a record, also
\* when a query before it failed after marking the span as processed.
C26_FailureCostsOnlyItself_AsClaimed ==
  [][QueryRanThrough => SpansOfQueryPresent]_vars

----------------------------------------------------------------------------
(* Claims about the classification in a repository scan, under SpecScan *)

\* The two analyses of a file give every function the same decision and the
\* same score, and the file the same algorithm_count.
SameClassification(analysis, other) ==
  /\ analysis.algorithm_count = other.algorithm_count
  /\ Len(analysis.functions) = Len(other.functions)
  /\ \A k \in 1..Len(analysis.functions) :
       /\ analysis.functions[k].is_algorithm = other.functions[k].is_algorithm
       /\ analysis.functions[k].algorithm_score = other.functions[k].algorithm_score

\* C27 (as claimed): every FunctionRecord of the function analysis of a
\* repository scan is classified with its source slice as the classifier's
\* code: its decision and score, and the file's algorithm_count, are those of
\* the analysis of the file with the code handed over.
C27_ClassifiedWithSlice_AsClaimed ==
  function_analysis # << >> =>
    \A i \in 1..Len(function_analysis[1].files) :
      \A f \in repo_files :
        Parts(f) = function_analysis[1].files[i].path =>
          SameClassification(function_analysis[1].files[i],
                             AnalyzeFile(languages, queries, f, TRUE)[1])

\* The name the structural lookup gives the record's candidate, over all the
\* name-captures of the query that reported it.
StructuralName(r) ==
  LookupName(CandidateOf(r),
             NameNodes(queries[language][FirstQueryOfSpan(r)],
                       Captured(queries[language][FirstQueryOfSpan(r)], tree), << >>))

\* Whether the structural lookup finds a name for the record's candidate.
StructurallyResolved(r) ==
  LET q == queries[language][FirstQueryOfSpan(r)]
      names == NameNodes(q, Captured(q, tree), << >>)
      n == CandidateOf(r)
  IN \E i \in 1..Len(names) :
       /\ names[i].key[1] >= n.start /\ names[i].key[2] <= n.end
       /\ names[i].key[1] <= n.start + 3

====
